---- MODULE Spec2Model ----
(***************************************************************************)
(* Orchestration pipeline of open-lovable: the generate endpoint           *)
(* (generate-v2-enhanced/route.ts) driving the shared MultiPhaseReasoner,  *)
(* V2StreamingManager and ConversationStateManager singletons, and the     *)
(* builder retry loop of agentic-workflow/route.ts with the error          *)
(* detector.                                                               *)
(*                                                                         *)
(* JavaScript runs one continuation at a time: an action is the code that  *)
(* runs between two suspension points (await) of one request.              *)
(***************************************************************************)
EXTENDS Integers, Sequences, FiniteSets, TLC

\* ------------------------------------------------------------------ bounds
NumRuns == 2            \* concurrently served generate requests
MaxTargets == 4         \* target files named by an intent analysis
MaxHistory == 1         \* conversationHistory entries of a request
MaxChunks == 1          \* text chunks of one streamed completion
MaxDefects == 2         \* detector-relevant fragments of one generated text
MaxRetriesBound == 1    \* largest maxRetries a workflow request asks for
Overshoot == 2          \* store calls made beyond the capacity of a store list
MaxMarked == 1          \* store calls whose payload differs from the usual one
MaxWords == 6           \* words of a user prompt
MaxContent == 3         \* tokens of a file content
MaxLines == 5           \* lines of a chunked file
MaxFilesArg == 2        \* largest maxFiles a search is called with, the default apart
MaxTerms == 2           \* search terms passed to findMatchingPatterns
MaxAdds == 4            \* addMessage calls that precede a duplicate check
MaxTalk == 3            \* messages of a conversation about preferences
MaxQuoted == 6          \* tokens of a code text with quotes
MaxSupplied == 4        \* component names handed to the store over its calls

Runs == 1..NumRuns

\* ------------------------------------------------------- program constants
MaxMessages == 50
MaxRecentEdits == 20

PhaseNames ==
  <<"Intent Analysis", "Context Search", "Strategic Planning",
    "Surgical Execution", "Validation">>

NumPhases == Len(PhaseNames)

NoEditsError == "Validation failed: No edits produced for user request"
ClosedError == "Invalid state: Controller is already closed"
TypeErrorMsg == "TypeError: not a function"
ReasoningFailed == "Multi-phase reasoning failed"

None == "none"

VARIABLES
  \* --- generate endpoint, one entry per request
  pc,            \* position of the request's continuation
  input,         \* the request body
  stream,        \* ReadableStream of the response: "open", "closed", "cancelled"
  events,        \* events enqueued on the request's controller, in order
  \* --- locals of executeMultiPhaseReasoning / executePhase, per run
  phase,         \* the ReasoningPhase objects the run created, in creation order
  intentAnalysis,
  strategicPlan,
  surgicalEdits,
  editIdx,       \* loop position of performSurgicalEdit over the target files
  thrown,        \* the error the settled executor promise was rejected with
  result,        \* the ReasoningResult returned by the run
  \* --- MultiPhaseReasoner singleton
  phases,        \* this.phases: the array the field currently refers to
  arrays,        \* the arrays ever assigned to this.phases: ids of phase objects
  \* --- V2StreamingManager singleton
  progress,
  \* --- ConversationStateManager singleton
  state,
  \* --- executeWithRetryStreaming / executeWithRetry of one workflow request
  rpc,           \* position of the loop: "idle", "building", "done", "threw"
  streaming,     \* TRUE for executeWithRetryStreaming
  maxRetries,
  controller,    \* the workflow response stream: "open" or "cancelled"
  sent,          \* events enqueued on the controller by the loop and the builder
  attempt,
  builderCalls,  \* invocations of the builder agent so far
  builderArgs,   \* arguments of the latest builder invocation
  textParts,     \* text parts the running completion has delivered
  builderResult,
  errors,
  autoFixResult,
  lastError,
  allAppliedFixes,
  fixLog,        \* the appliedFixes of every autoFixCode call of the request, in call order
  retryResult,   \* the value the loop returned
  \* --- history of the calls made on the ConversationStateManager
  added,         \* every message passed to addMessage, in call order
  recorded,      \* every edit passed to recordFileEdit, in call order
  \* --- one call of IntentAnalyzer.analyzeIntent
  ipc,           \* position of the call: "idle", "awaiting", "returned"
  userPrompt,
  responseText,
  parsedResponse, \* what parseIntentResponse returned or threw
  caughtError,   \* the error the catch block of analyzeIntent received
  intentResult,  \* the analysis the call returned
  \* --- one call of SurgicalEditor.performPrecisionEdit
  epc,           \* position of the call: "idle", "awaiting", "returned"
  originalContent,
  editResponse,  \* the text the completion delivered
  precisionEdit, \* the SurgicalEdit the call returned, or null
  \* --- one call of CodebaseAnalyzer.chunkCodeASTBased
  cpc,           \* position of the call: "idle", "returned"
  fileText,      \* the content passed to the chunker
  codeChunks,    \* the CodeChunk array it returned
  \* --- the CodebaseAnalyzer singleton and its last findRelevantFiles call
  fileAnalyses,  \* the entries of the Map, in insertion order
  searchQuery,   \* userQuery of the last search, split at white space
  searchMax,     \* its maxFiles
  relevant,      \* what it returned or threw
  \* --- one call of EditExamplesV2.findMatchingPatterns
  matchCall,     \* its arguments, once it was made
  matchingExamples,\* the EditExample array it returned
  \* --- one call of ConversationStateManager.isDuplicateRequest
  dupCall,       \* its argument and what it returned
  \* --- detectErrors and autoFixCode on the quotes of one code text
  qpc,           \* position of the call: "idle", "returned"
  quotedCode,    \* the code passed to detectErrors
  requotedCode,  \* the code after autoFixCode
  \* --- the component names handed to the store, in call order
  supplied

requestVars ==
  <<pc, input, stream, events, phase, intentAnalysis, strategicPlan,
    surgicalEdits, editIdx, thrown, result, phases, arrays, progress>>

orchVars == <<requestVars, state>>

retryVars ==
  <<rpc, streaming, maxRetries, controller, sent, attempt, builderCalls, builderArgs,
    textParts, builderResult, errors, autoFixResult, lastError, allAppliedFixes,
    fixLog,
    retryResult>>

storeVars == <<added, recorded>>

intentVars == <<ipc, userPrompt, responseText, parsedResponse, caughtError, intentResult>>

editVars == <<epc, originalContent, editResponse, precisionEdit>>

chunkVars == <<cpc, fileText, codeChunks>>

analyzerVars == <<fileAnalyses, searchQuery, searchMax, relevant>>

catalogVars == <<matchCall, matchingExamples>>

dupVars == <<dupCall>>

quoteVars == <<qpc, quotedCode, requotedCode>>

componentVars == <<supplied>>

vars == <<orchVars, retryVars, storeVars, intentVars, editVars, chunkVars, analyzerVars, catalogVars, dupVars, quoteVars, componentVars>>

\* the variables an action of one component leaves alone
notOrchVars == <<retryVars, storeVars, intentVars, editVars, chunkVars, analyzerVars, catalogVars, dupVars, quoteVars, componentVars>>
notRetryVars == <<orchVars, storeVars, intentVars, editVars, chunkVars, analyzerVars, catalogVars, dupVars, quoteVars, componentVars>>
notStoreVars == <<requestVars, retryVars, intentVars, editVars, chunkVars, analyzerVars, catalogVars, dupVars, quoteVars, componentVars>>
notIntentVars == <<orchVars, retryVars, storeVars, editVars, chunkVars, analyzerVars, catalogVars, dupVars, quoteVars, componentVars>>
notEditVars == <<orchVars, retryVars, storeVars, intentVars, chunkVars, analyzerVars, catalogVars, dupVars, quoteVars, componentVars>>
notChunkVars == <<orchVars, retryVars, storeVars, intentVars, editVars, analyzerVars, catalogVars, dupVars, quoteVars, componentVars>>
notAnalyzerVars == <<orchVars, retryVars, storeVars, intentVars, editVars, chunkVars, catalogVars, dupVars, quoteVars, componentVars>>
notCatalogVars == <<orchVars, retryVars, storeVars, intentVars, editVars, chunkVars, analyzerVars, dupVars, quoteVars, componentVars>>
notDupVars == <<requestVars, retryVars, recorded, intentVars, editVars, chunkVars, analyzerVars, catalogVars, quoteVars, componentVars>>
notQuoteVars == <<orchVars, retryVars, storeVars, intentVars, editVars, chunkVars, analyzerVars, catalogVars, dupVars, componentVars>>
notComponentVars == <<requestVars, retryVars, storeVars, intentVars, editVars, chunkVars, analyzerVars, catalogVars, dupVars, quoteVars>>

\* ---------------------------------------------------------------- helpers
Min(a, b) == IF a < b THEN a ELSE b

Last(s) == s[Len(s)]

RECURSIVE SeqsUpTo(_, _)
SeqsUpTo(S, n) ==
  IF n = 0 THEN {<<>>}
  ELSE LET shorter == SeqsUpTo(S, n - 1)
       IN shorter \cup {Append(s, x) : s \in {t \in shorter : Len(t) = n - 1}, x \in S}

\* Array.prototype.slice(-n)
SliceLast(s, n) == IF Len(s) <= n THEN s ELSE SubSeq(s, Len(s) - n + 1, Len(s))

\* --------------------------------------------- ConversationStateManager
initializeState ==
  [messages |-> <<>>,
   recentEdits |-> <<>>,
   components |-> <<>>,
   userPreferences |-> [styling |-> None, componentStyle |-> None,
                        stateManagement |-> None, testing |-> None]]

\* the trigger phrases that message.includes finds in the lowercased content
mentions(content) ==
  CASE content = "tailwind" -> {"tailwind"}
    [] content = "Use Tailwind, not CSS Modules" -> {"tailwind", "css modules"}
    [] content = "css modules" -> {"css modules"}
    [] content = "styled-components with hooks" -> {"styled-components", "hooks"}
    [] content = "hooks" -> {"hooks"}
    [] content = "class component" -> {"class component"}
    [] content = "zustand" -> {"zustand"}
    [] content = "redux" -> {"redux"}
    [] content = "Redux Toolkit with useContext" -> {"redux", "toolkit", "context", "usecontext"}
    [] content = "context" -> {"context"}
    [] content = "jest" -> {"jest"}
    [] content = "vitest" -> {"vitest"}
    [] OTHER -> {}

analyzeUserPreferences(prefs, content) ==
  LET found == mentions(content)
      styling == IF found \cap {"tailwind", "tw-"} # {} THEN "tailwind"
                 ELSE IF found \cap {"css modules", ".module.css"} # {} THEN "css-modules"
                 ELSE IF found \cap {"styled-components", "emotion"} # {} THEN "css-in-js"
                 ELSE prefs.styling
      componentStyle == IF found \cap {"functional component", "hooks"} # {} THEN "functional"
                        ELSE IF "class component" \in found THEN "class"
                        ELSE prefs.componentStyle
      stateManagement == IF found \cap {"zustand", "jotai"} # {} THEN "zustand"
                         ELSE IF found \cap {"redux", "toolkit"} # {} THEN "redux"
                         ELSE IF found \cap {"context", "usecontext"} # {} THEN "context"
                         ELSE prefs.stateManagement
      testing == IF found \cap {"jest", "testing-library"} # {} THEN "jest"
                 ELSE IF "vitest" \in found THEN "vitest"
                 ELSE prefs.testing
  IN [styling |-> styling, componentStyle |-> componentStyle,
      stateManagement |-> stateManagement, testing |-> testing]

\* addMessage trimming to the oldest entries instead of the latest
addMessageKeepsOldest(st, role, content) ==
  LET pushed == Append(st.messages, [role |-> role, content |-> content])
  IN [st EXCEPT !.messages = IF Len(pushed) > MaxMessages
                             THEN SubSeq(pushed, 1, MaxMessages) ELSE pushed]

\* every message is scanned for preferences, whatever its role
addMessageScanningAll(st, role, content) ==
  LET pushed == Append(st.messages, [role |-> role, content |-> content])
  IN [st EXCEPT !.messages = IF Len(pushed) > MaxMessages
                             THEN SliceLast(pushed, MaxMessages) ELSE pushed,
                !.userPreferences = analyzeUserPreferences(st.userPreferences, content)]

addMessage(st, role, content) ==
  LET pushed == Append(st.messages, [role |-> role, content |-> content])
      prefs == IF role = "user"
               THEN analyzeUserPreferences(st.userPreferences, content)
               ELSE st.userPreferences
  IN [st EXCEPT !.messages = IF Len(pushed) > MaxMessages
                             THEN SliceLast(pushed, MaxMessages) ELSE pushed,
                !.userPreferences = prefs]

\* recordFileEdit trimming only once the list is one entry over its capacity
recordFileEditTrimsLate(st, fileName, editType) ==
  LET pushed == Append(st.recentEdits, [fileName |-> fileName, editType |-> editType])
  IN [st EXCEPT !.recentEdits = IF Len(pushed) > MaxRecentEdits + 1
                                THEN SliceLast(pushed, MaxRecentEdits) ELSE pushed]

recordFileEdit(st, fileName, editType) ==
  LET pushed == Append(st.recentEdits, [fileName |-> fileName, editType |-> editType])
  IN [st EXCEPT !.recentEdits = IF Len(pushed) > MaxRecentEdits
                                THEN SliceLast(pushed, MaxRecentEdits) ELSE pushed]

RECURSIVE addMessages(_, _)
addMessages(st, msgs) ==
  IF msgs = <<>> THEN st
  ELSE addMessages(addMessage(st, msgs[1].role, msgs[1].content), Tail(msgs))

RECURSIVE recordFileEdits(_, _, _)
recordFileEdits(st, edits, editType) ==
  IF edits = <<>> THEN st
  ELSE recordFileEdits(recordFileEdit(st, edits[1].filePath, editType), Tail(edits), editType)

\* components.forEach(comp => { if (!list.includes(comp)) list.push(comp) })
\* with every found name pushed again
RECURSIVE pushEach(_, _)
pushEach(list, comps) ==
  IF comps = <<>> THEN list
  ELSE pushEach(Append(list, comps[1]), Tail(comps))

\* components.forEach(comp => { if (!list.includes(comp)) list.push(comp) })
RECURSIVE pushMissing(_, _)
pushMissing(list, comps) ==
  IF comps = <<>> THEN list
  ELSE pushMissing(IF \E i \in 1..Len(list) : list[i] = comps[1]
                   THEN list ELSE Append(list, comps[1]),
                   Tail(comps))

\* recordFileEdit called with its fourth argument componentsAffected
recordFileEditAffecting(st, fileName, editType, componentsAffected) ==
  LET edited == recordFileEdit(st, fileName, editType)
  IN [edited EXCEPT !.components = pushMissing(st.components, componentsAffected)]

\* [A-Z][a-zA-Z0-9]* at the start of the token
IsComponentName(tok) == tok \in {"Header", "Footer", "Nav"}

\* content.match(/(?:export\s+default\s+|function\s+|const\s+)([A-Z][a-zA-Z0-9]*)/g)
\* with the prefix replaced away: the matches from token i on, left to right
\* and not overlapping
RECURSIVE componentMatches(_, _)
componentMatches(text, i) ==
  IF i > Len(text) THEN <<>>
  ELSE IF /\ i + 2 <= Len(text)
          /\ text[i] = "export" /\ text[i + 1] = "default"
          /\ IsComponentName(text[i + 2])
       THEN <<text[i + 2]>> \o componentMatches(text, i + 3)
  ELSE IF /\ i + 1 <= Len(text)
          /\ text[i] \in {"function", "const"}
          /\ IsComponentName(text[i + 1])
       THEN <<text[i + 1]>> \o componentMatches(text, i + 2)
  ELSE componentMatches(text, i + 1)

\* fileName.endsWith('.tsx') || fileName.endsWith('.jsx')
IsComponentFile(fileName) == fileName \in {"Header.tsx", "App.jsx"}

\* the local components array of extractComponentsFromContext; files is the
\* sequence Object.entries(files) yields
RECURSIVE discovered(_, _)
discovered(files, found) ==
  IF files = <<>> THEN found
  ELSE discovered(Tail(files),
                  IF IsComponentFile(files[1].fileName)
                  THEN pushMissing(found, componentMatches(files[1].text, 1))
                  ELSE found)

\* updateContext; currentContext and lastActivity are not part of the model
updateContext(st, files) ==
  [st EXCEPT !.components = pushMissing(st.components, discovered(files, <<>>))]

\* ------------------------------------------------------ V2StreamingManager
InitialProgress ==
  [stage |-> "initializing", filesCompleted |-> 0, warnings |-> <<>>, errors |-> <<>>]

\* events that do not embed the progress snapshot carry NoProgress
NoProgress ==
  [stage |-> None, filesCompleted |-> 0, warnings |-> <<>>, errors |-> <<>>]

Event(type, detail, prog) == [type |-> type, detail |-> detail, progress |-> prog]

\* controller.enqueue throws once the stream is closed or cancelled
CanEnqueue(st) == st = "open"

\* sendProgress swallows the exception of a failing enqueue
sendProgress(evs, st, ev) == IF CanEnqueue(st) THEN Append(evs, ev) ELSE evs

\* a status update that sets the stage and sends nothing
updateStatusUnsent(prog, evs, st, stage, details) ==
  [progress |-> [prog EXCEPT !.stage = stage], events |-> evs]

\* updateStatus: the pair of the new progress and the new event list
updateStatus(prog, evs, st, stage, details) ==
  LET p == [prog EXCEPT !.stage = stage]
  IN [progress |-> p,
      events |-> sendProgress(evs, st, Event("status", details, p))]

addWarning(prog, evs, st, warning) ==
  LET p == [prog EXCEPT !.warnings = Append(@, warning)]
  IN [progress |-> p,
      events |-> sendProgress(evs, st, Event("warning", warning, NoProgress))]

addError(prog, evs, st, error) ==
  LET p == [prog EXCEPT !.errors = Append(@, error)]
  IN [progress |-> p,
      events |-> sendProgress(evs, st, Event("error", error, NoProgress))]

complete(prog, evs, st, summary) ==
  LET u == updateStatus(prog, evs, st, "Complete", "Generation finished successfully")
  IN [progress |-> u.progress,
      events |-> sendProgress(u.events, st, Event("complete", summary, u.progress))]

\* context threaded through the calls of one continuation
Ctx(prog, evs) == [progress |-> prog, events |-> evs]

\* ------------------------------------------------------- intent analysis
\* An analysis is what JSON.parse returned: its fields are untyped.  shape
\* records how the value departs from IntentAnalysis in a way analyzeIntent
\* does not catch: targetFiles a string (no join), targetFiles with neither
\* includes nor join, expectedChanges not an array.  targetFiles[i] tells
\* whether codebaseContext.files holds the i-th target file.
Shapes == {"ok", "targetsString", "targetsOther", "noExpectedChanges"}

FallbackAnalysis ==
  [editType |-> "CREATE", surgicalEdit |-> FALSE, targetFiles |-> <<>>, shape |-> "ok"]

ParsedAnalyses(hasFiles) ==
  {[editType |-> e, surgicalEdit |-> TRUE, targetFiles |-> t, shape |-> "ok"] :
      e \in {"UPDATE", "FIX", "ENHANCE", "REFACTOR", "DELETE"},
      t \in {u \in SeqsUpTo(BOOLEAN, MaxTargets) :
               \A i \in 1..Len(u) : u[i] => hasFiles}}
  \cup {[editType |-> "CREATE", surgicalEdit |-> FALSE, targetFiles |-> <<>>, shape |-> "ok"]}
  \cup {[editType |-> "UPDATE", surgicalEdit |-> TRUE, targetFiles |-> <<>>, shape |-> sh] :
      sh \in Shapes \ {"ok"}}

\* --------------------------------------------------------- SurgicalEditor
\* constraints that allow every edit what they allow a refactoring
maxFilesOfRefactor(editType) == 3

maxFiles(editType) ==
  CASE editType \in {"UPDATE", "FIX"} -> 1
    [] editType = "ENHANCE" -> 2
    [] editType = "CREATE" -> 1
    [] editType = "REFACTOR" -> 3
    [] OTHER -> 1

\* the next target file, from index `from`, that the loop of
\* performSurgicalEdit hands to performPrecisionEdit; 0 when the loop ends
RECURSIVE NextTarget(_, _)
NextTarget(analysis, from) ==
  IF from > Min(Len(analysis.targetFiles), maxFiles(analysis.editType)) THEN 0
  ELSE IF analysis.targetFiles[from] THEN from
  ELSE NextTarget(analysis, from + 1)

\* a loop that ends at the first file for which no edit came back
NextAfterEditOrStop(analysis, idx, made) ==
  IF made THEN NextTarget(analysis, idx + 1) ELSE 0

\* the loop of performSurgicalEdit going on after performPrecisionEdit
\* returned an edit or, from its catch block, null
NextAfterEdit(analysis, idx, made) == NextTarget(analysis, idx + 1)

\* the branch taken on the flag alone
SurgicalModeOfFlagAlone(analysis) == analysis.surgicalEdit

SurgicalMode(analysis) == analysis.surgicalEdit /\ Len(analysis.targetFiles) > 0

\* The synchronous head of performPrecisionEdit / performPrecisionCreation:
\* streamUpdate (an unguarded enqueue) and the prompt construction, both
\* outside the try block.
EditHead(analysis, st, evs, type) ==
  IF ~CanEnqueue(st) THEN [events |-> evs, thrown |-> ClosedError]
  ELSE IF analysis.shape = "noExpectedChanges"
       THEN [events |-> Append(evs, Event(type, "start", NoProgress)), thrown |-> TypeErrorMsg]
       ELSE [events |-> Append(evs, Event(type, "start", NoProgress)), thrown |-> None]

\* ----------------------------------------------------- MultiPhaseReasoner
\* a run that goes from Intent Analysis straight to Strategic Planning
PhaseAfterSkipping(n) == IF n = 1 THEN PhaseNames[3] ELSE PhaseNames[n + 1]

\* the order of the executePhase calls in executeMultiPhaseReasoning
PhaseAfter(n) == PhaseNames[n + 1]

\* a validation that accepts an empty list of edits
validateResultsLax(edits) == None

\* validateResults: the error it throws, if any
validateResults(edits) == IF Len(edits) > 0 THEN None ELSE NoEditsError

\* this.phases.every(p => p.status === 'completed')
everyCompleted(arr, objs) ==
  \A i \in 1..Len(arr) : objs[arr[i][1]][arr[i][2]].status = "completed"

\* a catch block that records the phase as completed
catchStatusCompleted == "completed"

\* catch block of executePhase: the status a throwing executor leaves
catchStatus == "failed"

\* The executor of the k-th phase up to its first suspension point.
\* settled: the executor's promise is already settled when it returns.
ExecutorHead(r, k, st, ctx) ==
  LET ia == intentAnalysis[r]
  IN CASE k = 1 ->
            LET u == updateStatus(ctx.progress, ctx.events, st, "Analyzing user intent", "Processing")
            IN [ctx |-> Ctx(u.progress,
                            sendProgress(u.events, st, Event("intent-analysis", "start", NoProgress))),
                settled |-> FALSE, thrown |-> None, editIdx |-> 0]
       [] k = 2 ->
            LET u == updateStatus(ctx.progress, ctx.events, st, "Context Search", "Searching")
            IN [ctx |-> Ctx(u.progress, u.events), settled |-> TRUE,
                thrown |-> IF ia.shape = "targetsOther" /\ input[r].files
                           THEN TypeErrorMsg ELSE None,
                editIdx |-> 0]
       [] k = 3 ->
            LET u == updateStatus(ctx.progress, ctx.events, st, "Strategic Planning",
                                  "Creating execution strategy...")
                bad == ia.shape \in {"targetsString", "targetsOther"}
            IN [ctx |-> Ctx(u.progress, u.events), settled |-> bad,
                thrown |-> IF bad THEN TypeErrorMsg ELSE None, editIdx |-> 0]
       [] k = 4 ->
            LET u == updateStatus(ctx.progress, ctx.events, st, "Surgical Execution",
                                  strategicPlan[r].approach)
                first == IF SurgicalMode(ia) THEN NextTarget(ia, 1) ELSE 0
                h == EditHead(ia, st, u.events,
                              IF SurgicalMode(ia) THEN "surgical-edit" ELSE "surgical-create")
            IN IF SurgicalMode(ia) /\ first = 0
               THEN [ctx |-> Ctx(u.progress, u.events), settled |-> TRUE,
                     thrown |-> None, editIdx |-> 0]
               ELSE [ctx |-> Ctx(u.progress, h.events), settled |-> h.thrown # None,
                     thrown |-> h.thrown, editIdx |-> first]
       [] OTHER ->
            LET u == updateStatus(ctx.progress, ctx.events, st, "Validation",
                                  "Validating surgical edits...")
            IN [ctx |-> Ctx(u.progress, u.events), settled |-> TRUE,
                thrown |-> validateResults(surgicalEdits[r]), editIdx |-> 0]

\* executePhase up to `await executor()`: the phase object is pushed on the
\* array this.phases refers to (ref, in arrs) and the executor is started.
\* a phase object that is born completed
NewPhaseCompleted(name) ==
  [name |-> name, status |-> "completed", result |-> None, error |-> None,
   duration |-> None]

\* the ReasoningPhase object executePhase creates; result, error and duration
\* are absent until the phase ends
NewPhase(name) ==
  [name |-> name, status |-> "in_progress", result |-> None, error |-> None,
   duration |-> None]

BeginPhase(r, k, st, ref, arrs, ctx) ==
  LET name == PhaseAfter(k - 1)
      obj == NewPhase(name)
      u == updateStatus(ctx.progress, ctx.events, st, name, "Starting")
      h == ExecutorHead(r, k, st, Ctx(u.progress, u.events))
  IN /\ phase' = [phase EXCEPT ![r] = Append(@, obj)]
     /\ arrays' = [arrs EXCEPT ![ref] = Append(@, <<r, k>>)]
     /\ progress' = h.ctx.progress
     /\ events' = [events EXCEPT ![r] = h.ctx.events]
     /\ thrown' = [thrown EXCEPT ![r] = h.thrown]
     /\ editIdx' = [editIdx EXCEPT ![r] = h.editIdx]
     /\ pc' = [pc EXCEPT ![r] = IF h.settled THEN "settled" ELSE "exec"]

NoAnalysis == [editType |-> None, surgicalEdit |-> FALSE, targetFiles |-> <<>>, shape |-> None]

NoPlan ==
  [approach |-> None, phases |-> <<>>, estimatedComplexity |-> None, fallback |-> FALSE]

NoResult == [returned |-> FALSE, phases |-> 0, success |-> FALSE, surgicalEdits |-> <<>>]

PlanApproaches == {"surgical_edit", "new_creation", "multi_file_refactor"}

\* a plan parsed from the completion text, as the planning prompt asks for it
ParsedPlan(approach) ==
  [approach |-> approach, phases |-> <<"phase1", "phase2", "phase3">>,
   estimatedComplexity |-> "low", fallback |-> FALSE]

\* a fallback plan that takes every request for a creation
FallbackPlanOfCreation(analysis) ==
  [approach |-> "new_creation", phases |-> <<"analyze", "modify", "validate">>,
   estimatedComplexity |-> "medium", fallback |-> TRUE]

\* fallback plan of createStrategicPlan
FallbackPlan(analysis) ==
  [approach |-> IF analysis.surgicalEdit THEN "surgical_edit" ELSE "new_creation",
   phases |-> <<"analyze", "modify", "validate">>,
   estimatedComplexity |-> "medium",
   fallback |-> TRUE]

HistoryMessages == {[role |-> "user", content |-> c] : c \in {"plain", "tailwind"}}

\* ------------------------------------------- parsing of a completion text
\* A text is a sequence of tokens: "{" "}" ":" as in JSON, "q" a double quote,
\* "n" a number literal, "f" a fence of three backticks, "x" any other run of
\* characters.  White space is not represented.
NullMatch == <<>>

\* index after the string literal opening at i, 0 when it is not closed
StringEnd(t, i) ==
  LET closers == {j \in (i + 1)..Len(t) : t[j] = "q"}
  IN IF closers = {} THEN 0
     ELSE (CHOOSE j \in closers : \A k \in closers : j <= k) + 1

\* index after the JSON value starting at i, 0 when there is none: a number,
\* a string, an empty object or an object with one member
RECURSIVE ValueEnd(_, _)
ValueEnd(t, i) ==
  IF i > Len(t) THEN 0
  ELSE IF t[i] = "n" THEN i + 1
  ELSE IF t[i] = "q" THEN StringEnd(t, i)
  ELSE IF t[i] = "{"
  THEN IF i + 1 <= Len(t) /\ t[i + 1] = "}" THEN i + 2
       ELSE LET k == IF i + 1 <= Len(t) /\ t[i + 1] = "q" THEN StringEnd(t, i + 1) ELSE 0
            IN IF k = 0 \/ k > Len(t) \/ t[k] # ":" THEN 0
               ELSE LET v == ValueEnd(t, k + 1)
                    IN IF v = 0 \/ v > Len(t) \/ t[v] # "}" THEN 0 ELSE v + 1
  ELSE 0

IsJson(t) == ValueEnd(t, 1) = Len(t) + 1

\* JSON.parse: the value is represented by the text it was parsed from
JSONparse(t) ==
  IF IsJson(t) THEN [threw |-> FALSE, error |-> None, value |-> t]
  ELSE [threw |-> TRUE, error |-> "SyntaxError", value |-> NullMatch]

\* response.match(/```(?:json)?\s*(\{[\s\S]*?\})\s*```/): the capture of the
\* leftmost match, which ends at the first "}" followed by a fence
FencedMatch(t) ==
  LET ends(i) == {j \in (i + 2)..(Len(t) - 1) : t[j] = "}" /\ t[j + 1] = "f"}
      starts == {i \in 1..(Len(t) - 3) : t[i] = "f" /\ t[i + 1] = "{" /\ ends(i) # {}}
  IN IF starts = {} THEN NullMatch
     ELSE LET i == CHOOSE a \in starts : \A b \in starts : a <= b
              j == CHOOSE a \in ends(i) : \A b \in ends(i) : a <= b
          IN SubSeq(t, i + 1, j)

\* response.match(/\{[\s\S]*\}/): from the first "{" to the last "}"
ObjectMatch(t) ==
  LET opens == {i \in 1..Len(t) : t[i] = "{"}
      first == CHOOSE a \in opens : \A b \in opens : a <= b
      closes == {j \in 1..Len(t) : t[j] = "}" /\ j > first}
  IN IF opens = {} \/ closes = {} THEN NullMatch
     ELSE SubSeq(t, first, CHOOSE a \in closes : \A b \in closes : a >= b)

NoJsonFound == [threw |-> TRUE, error |-> "No valid JSON found in response", value |-> NullMatch]

parseIntentResponse(text) ==
  LET direct == JSONparse(text)
      jsonMatch == FencedMatch(text)
      jsonObjectMatch == ObjectMatch(text)
  IN IF ~direct.threw THEN direct
     ELSE IF jsonMatch # NullMatch THEN JSONparse(jsonMatch)
     ELSE IF jsonObjectMatch # NullMatch THEN JSONparse(jsonObjectMatch)
     ELSE NoJsonFound

CouldNotParsePlan == [threw |-> TRUE, error |-> "Could not parse strategic plan", value |-> NullMatch]

parseStrategicPlan(response) ==
  LET direct == JSONparse(response)
      jsonMatch == FencedMatch(response)
      jsonObjectMatch == ObjectMatch(response)
  IN IF ~direct.threw THEN direct
     ELSE IF jsonMatch # NullMatch THEN JSONparse(jsonMatch)
     ELSE IF jsonObjectMatch # NullMatch THEN JSONparse(jsonObjectMatch)
     ELSE CouldNotParsePlan

\* the texts a completion delivers
Member == <<"q", "x", "q", ":", "n">>
Object == <<"{">> \o Member \o <<"}">>

Responses ==
  {Object,                                        \* the object alone
   <<"{", "}">>,                                  \* {}
   <<"n">>,                                       \* a number
   <<"{", "q", "x", "q", ":">> \o Object \o <<"}">>,   \* an object in an object
   <<"x", "f">> \o Object \o <<"f">>,             \* prose, then the object in fences
   <<"f", "{", "q", "x", "q", ":">> \o Object \o <<"}", "f", "x">>,
   <<"x">> \o Object \o <<"x">>,                  \* the object within prose
   <<"x">>,                                       \* prose alone
   <<>>,                                          \* nothing
   <<"x", "{", "x", "}">>,                        \* braces around prose
   <<"x", "f", "{", "x", "}", "f">>,              \* fences around braces around prose
   \* an object within prose whose key holds fenced braces
   <<"x", "{", "q", "f", "{", "x", "}", "f", "q", ":", "n", "}">>}

\* this.parseIntentResponse(responseText) for each of the texts
parsedResponses == [text \in Responses |-> parseIntentResponse(text)]

\* this.parseStrategicPlan(planText) for each of the texts
parsedPlans == [text \in Responses |-> parseStrategicPlan(text)]

\* The inputs and completion-service answers a request draws from.  A request
\* served alone (full) draws from all of them; concurrently served requests
\* draw from one representative of each outcome: an analysis leading to an
\* edit, to a creation, and to a failing phase.
Histories(full) ==
  IF full THEN SeqsUpTo(HistoryMessages, MaxHistory)
  ELSE {<<>>}

FileFlags(full) == IF full THEN BOOLEAN ELSE {TRUE}

Analyses(full, hasFiles) ==
  IF full THEN ParsedAnalyses(hasFiles) \cup {FallbackAnalysis}
  ELSE {FallbackAnalysis,
        [editType |-> "UPDATE", surgicalEdit |-> TRUE, targetFiles |-> <<TRUE>>, shape |-> "ok"],
        [editType |-> "UPDATE", surgicalEdit |-> TRUE, targetFiles |-> <<>>,
         shape |-> "targetsString"]}

Approaches(full) == IF full THEN PlanApproaches ELSE {"surgical_edit"}

PlanTexts(full) == IF full THEN Responses ELSE {Object, <<"x">>}

\* numbers of chunks a completion streams before it ends or fails
ChunkCounts(full) == IF full THEN 0..MaxChunks ELSE {MaxChunks}

OrchInit ==
  /\ pc = [r \in Runs |-> "idle"]
  /\ input = [r \in Runs |-> [files |-> FALSE, recentChanges |-> <<>>]]
  /\ stream = [r \in Runs |-> None]
  /\ events = [r \in Runs |-> <<>>]
  /\ phase = [r \in Runs |-> <<>>]
  /\ intentAnalysis = [r \in Runs |-> NoAnalysis]
  /\ strategicPlan = [r \in Runs |-> NoPlan]
  /\ surgicalEdits = [r \in Runs |-> <<>>]
  /\ editIdx = [r \in Runs |-> 0]
  /\ thrown = [r \in Runs |-> None]
  /\ result = [r \in Runs |-> NoResult]
  /\ phases = 0
  /\ arrays = [a \in 0..NumRuns |-> <<>>]
  /\ progress = InitialProgress
  /\ state = initializeState

\* The codebase context start(controller) builds for the run: whether the
\* request carries files, and one entry per edit the store holds (the
\* description of the edit).
codebaseContext(files, st) == [files |-> files, recentChanges |-> st.recentEdits]

\* POST of the generate endpoint with useMultiPhaseReasoning: start(controller)
\* up to the first await, inside analyzeIntent.  executeMultiPhaseReasoning
\* assigns a fresh array to this.phases.
StartRequest(r, full) ==
  /\ pc[r] = "idle"
  /\ \E hist \in Histories(full), files \in FileFlags(full) :
       LET u == updateStatus(InitialProgress, <<>>, "open", "Initializing", "v2-Enhanced generation")
       IN /\ input' = [input EXCEPT ![r] = codebaseContext(files, state)]
          /\ stream' = [stream EXCEPT ![r] = "open"]
          /\ state' = addMessages(state, hist)
          /\ phases' = r
          /\ BeginPhase(r, 1, "open", r, [arrays EXCEPT ![r] = <<>>],
                        Ctx(u.progress, u.events))
  /\ UNCHANGED <<intentAnalysis, strategicPlan, surgicalEdits, result>>

\* POST with useMultiPhaseReasoning = false.  simpleGeneration is declared
\* inside the body of POST and called as this.simpleGeneration: either the
\* call runs the declared body or it throws a TypeError into the catch block.
StartSimple(r, full) ==
  /\ pc[r] = "idle"
  /\ \E hist \in Histories(full), files \in FileFlags(full), runs \in BOOLEAN :
       LET u == updateStatus(InitialProgress, <<>>, "open", "Initializing", "v2-Enhanced generation")
           g == updateStatus(u.progress, u.events, "open", "Simple Generation",
                             "Generating with basic approach...")
           c == complete(g.progress,
                         Append(g.events, Event("file-generation", "SimpleComponent.tsx", NoProgress)),
                         "open", "simple_generation")
       IN /\ input' = [input EXCEPT ![r] = codebaseContext(files, state)]
          /\ state' = addMessages(state, hist)
          /\ IF runs
             THEN /\ progress' = c.progress
                  /\ events' = [events EXCEPT ![r] = c.events]
             ELSE /\ progress' = u.progress
                  /\ events' = [events EXCEPT ![r] =
                                  Append(u.events, Event("error", TypeErrorMsg, NoProgress))]
  /\ stream' = [stream EXCEPT ![r] = "closed"]
  /\ pc' = [pc EXCEPT ![r] = "done"]
  /\ UNCHANGED <<phase, intentAnalysis, strategicPlan, surgicalEdits, editIdx, thrown,
                 result, phases, arrays>>

\* analyzeIntent resumes: the completion call returned a parsable analysis, or
\* it failed / did not parse / enrichment threw and the fallback is returned.
IntentReturns(r, full) ==
  /\ pc[r] = "exec"
  /\ Len(phase[r]) = 1
  /\ \E ia \in Analyses(full, input[r].files) :
       /\ intentAnalysis' = [intentAnalysis EXCEPT ![r] = ia]
       /\ events' = [events EXCEPT ![r] =
                       sendProgress(@, stream[r], Event("intent-analysis", "complete", NoProgress))]
  /\ thrown' = [thrown EXCEPT ![r] = None]
  /\ pc' = [pc EXCEPT ![r] = "settled"]
  /\ UNCHANGED <<input, stream, phase, strategicPlan, surgicalEdits, editIdx, result,
                 phases, arrays, progress, state>>

\* createStrategicPlan resumes: the plan text streamed in n chunks; it parsed,
\* or the call rejected or the parse failed and the fallback plan is returned.
PlanReturns(r, full) ==
  /\ pc[r] = "exec"
  /\ Len(phase[r]) = 3
  /\ \E n \in ChunkCounts(full), text \in PlanTexts(full), rejects \in BOOLEAN,
        approach \in Approaches(full) :
       LET chunks == [i \in 1..n |-> Event("plan-thinking", "chunk", NoProgress)]
           streamed == IF CanEnqueue(stream[r]) THEN events[r] \o chunks ELSE events[r]
           parsed == ~rejects /\ ~parsedPlans[text].threw
       IN /\ (~rejects /\ text # <<>>) => n > 0
          /\ ~parsed => approach = "surgical_edit"
          /\ strategicPlan' = [strategicPlan EXCEPT ![r] =
                 IF parsed THEN ParsedPlan(approach)
                 ELSE FallbackPlan(intentAnalysis[r])]
          /\ events' = [events EXCEPT ![r] =
                 IF parsed
                 THEN sendProgress(streamed, stream[r], Event("plan-complete", approach, NoProgress))
                 ELSE streamed]
  /\ thrown' = [thrown EXCEPT ![r] = None]
  /\ pc' = [pc EXCEPT ![r] = "settled"]
  /\ UNCHANGED <<input, stream, phase, intentAnalysis, surgicalEdits, editIdx, result,
                 phases, arrays, progress, state>>

\* performPrecisionEdit / performPrecisionCreation resumes for the request in
\* flight, then the loop of performSurgicalEdit runs on to the next await, to
\* a throw, or to the end, where executeSurgicalChanges records the edits.
EditReturns(r, full) ==
  /\ pc[r] = "exec"
  /\ Len(phase[r]) = 4
  /\ \E n \in ChunkCounts(full), rejects \in BOOLEAN, changed \in BOOLEAN :
       LET ia == intentAnalysis[r]
           type == IF SurgicalMode(ia) THEN "surgical-thinking" ELSE "surgical-creating"
           chunks == [i \in 1..n |-> Event(type, "chunk", NoProgress)]
           \* streamUpdate inside the try block: a failing enqueue ends in `return null`
           caught == n > 0 /\ ~CanEnqueue(stream[r])
           streamed == IF caught THEN events[r] ELSE events[r] \o chunks
           \* a rejected call, an empty text or a text extracted as the original give no edit
           made == ~rejects /\ changed /\ n > 0 /\ ~caught
           edits == IF made THEN Append(surgicalEdits[r], [filePath |-> editIdx[r]])
                    ELSE surgicalEdits[r]
           next == IF SurgicalMode(ia) THEN NextAfterEdit(ia, editIdx[r], made) ELSE 0
           h == EditHead(ia, stream[r], streamed, "surgical-edit")
       IN /\ rejects => ~changed
          /\ surgicalEdits' = [surgicalEdits EXCEPT ![r] = edits]
          /\ IF next = 0
             THEN /\ events' = [events EXCEPT ![r] = streamed]
                  /\ state' = recordFileEdits(state, edits, ia.editType)
                  /\ thrown' = [thrown EXCEPT ![r] = None]
                  /\ pc' = [pc EXCEPT ![r] = "settled"]
                  /\ editIdx' = editIdx
             ELSE /\ events' = [events EXCEPT ![r] = h.events]
                  /\ state' = state
                  /\ thrown' = [thrown EXCEPT ![r] = h.thrown]
                  /\ pc' = [pc EXCEPT ![r] = IF h.thrown # None THEN "settled" ELSE "exec"]
                  /\ editIdx' = [editIdx EXCEPT ![r] = next]
  /\ UNCHANGED <<input, stream, phase, intentAnalysis, strategicPlan, result,
                 phases, arrays, progress>>

\* executePhase resumes after `await executor()`: the try or the catch branch.
ExecutorSettled(r) ==
  /\ pc[r] = "settled"
  /\ LET k == Len(phase[r])
         name == phase[r][k].name
     IN IF thrown[r] = None
        THEN LET u == updateStatus(progress, events[r], stream[r], name, "completed")
             IN /\ phase' = [phase EXCEPT ![r][k].status = "completed",
                                          ![r][k].result = "result",
                                          ![r][k].duration = "elapsed"]
                /\ progress' = u.progress
                /\ events' = [events EXCEPT ![r] = u.events]
                /\ pc' = [pc EXCEPT ![r] = "next"]
        ELSE LET e == addError(progress, events[r], stream[r], thrown[r])
             IN /\ phase' = [phase EXCEPT ![r][k].status = catchStatus,
                                          ![r][k].error = thrown[r],
                                          ![r][k].duration = "elapsed"]
                /\ progress' = e.progress
                /\ events' = [events EXCEPT ![r] = e.events]
                /\ pc' = [pc EXCEPT ![r] = "caught"]
  /\ UNCHANGED <<input, stream, intentAnalysis, strategicPlan, surgicalEdits, editIdx,
                 thrown, result, phases, arrays, state>>

\* executeMultiPhaseReasoning resumes after a completed phase and calls
\* executePhase for the next one.
NextPhase(r) ==
  /\ pc[r] = "next"
  /\ Len(phase[r]) < NumPhases
  /\ BeginPhase(r, Len(phase[r]) + 1, stream[r], phases, arrays, Ctx(progress, events[r]))
  /\ UNCHANGED <<input, stream, intentAnalysis, strategicPlan, surgicalEdits, result,
                 phases, state>>

\* executeMultiPhaseReasoning resumes after the last phase: lines 91-106.
ReturnResult(r) ==
  /\ pc[r] = "next"
  /\ Len(phase[r]) = NumPhases
  /\ state' = addMessage(state, "assistant", "Completed multi-phase reasoning")
  /\ result' = [result EXCEPT ![r] =
        [returned |-> TRUE, phases |-> phases,
         success |-> everyCompleted(arrays[phases], phase),
         surgicalEdits |-> surgicalEdits[r]]]
  /\ pc' = [pc EXCEPT ![r] = "returned"]
  /\ UNCHANGED <<input, stream, events, phase, intentAnalysis, strategicPlan,
                 surgicalEdits, editIdx, thrown, phases, arrays, progress>>

\* catch block of executeMultiPhaseReasoning: lines 108-119.
ReturnFailure(r) ==
  /\ pc[r] = "caught"
  /\ result' = [result EXCEPT ![r] =
        [returned |-> TRUE, phases |-> phases, success |-> FALSE, surgicalEdits |-> <<>>]]
  /\ pc' = [pc EXCEPT ![r] = "returned"]
  /\ UNCHANGED <<input, stream, events, phase, intentAnalysis, strategicPlan,
                 surgicalEdits, editIdx, thrown, phases, arrays, progress, state>>

\* start(controller) resumes with the ReasoningResult: lines 79-130.  The
\* enqueue calls of the route are unguarded: on a cancelled stream the one in
\* the try block throws into the catch block, whose own enqueue throws out of
\* start().
RouteFinish(r) ==
  /\ pc[r] = "returned"
  /\ IF ~CanEnqueue(stream[r])
     THEN /\ pc' = [pc EXCEPT ![r] = "aborted"]
          /\ UNCHANGED <<events, progress, stream>>
     ELSE /\ pc' = [pc EXCEPT ![r] = "done"]
          /\ stream' = [stream EXCEPT ![r] = "closed"]
          /\ IF result[r].success
             THEN LET files == [i \in 1..Len(result[r].surgicalEdits) |->
                                  Event("file-generation", "edit", NoProgress)]
                      c == complete(progress, events[r] \o files, stream[r],
                                    strategicPlan[r].approach)
                  IN /\ progress' = c.progress
                     /\ events' = [events EXCEPT ![r] = c.events]
             ELSE /\ events' = [events EXCEPT ![r] =
                                  Append(@, Event("error", ReasoningFailed, NoProgress))]
                  /\ progress' = progress
  /\ UNCHANGED <<input, phase, intentAnalysis, strategicPlan, surgicalEdits, editIdx,
                 thrown, result, phases, arrays, state>>

\* the client disconnects: the stream is cancelled
ClientCancel(r) ==
  /\ stream[r] = "open"
  /\ pc[r] \notin {"idle", "done", "aborted"}
  /\ stream' = [stream EXCEPT ![r] = "cancelled"]
  /\ UNCHANGED <<pc, input, events, phase, intentAnalysis, strategicPlan, surgicalEdits,
                 editIdx, thrown, result, phases, arrays, progress, state>>

\* ------------------------------------------------------------ error detector
\* Generated code is kept as the text features the detector, the fix
\* strategies and the validator read: how many fragments of each kind the
\* text holds.  Plain strings and imports of generated code use double quotes,
\* parameter-like variables occur inside backtick templates.
\*   sqt      single-quoted strings holding a ${..} placeholder  'u/${x}'
\*   bt       backtick templates over an ordinary variable      `u/${x}`
\*   uvKnown  backtick templates over ${symbolsParam}
\*   uvOther  backtick templates over ${userQuery}
\*   sym      backtick templates over ${symbols}
\*   rel      fetch("/api/x") calls, abs the rewritten absolute fetches
\*   useState / useEffect / importReact / cors / syntax / marketApi: the text
\*            useState, useEffect or useCallback, import React, the CORS
\*            message, a syntax error message, the market data URL occurs
\*   func     the component declaration, stateDecl the inserted useState line
\*   openBrace / openParen  an unmatched { or (
FuncKinds == {"none", "exportDefault", "exportDefaultProps", "function"}

EmptyCode ==
  [sqt |-> 0, bt |-> 0, uvKnown |-> 0, uvOther |-> 0, sym |-> 0, rel |-> 0, abs |-> 0,
   useState |-> FALSE, useEffect |-> FALSE, importReact |-> FALSE, cors |-> FALSE,
   syntax |-> FALSE, marketApi |-> FALSE, func |-> "none", stateDecl |-> FALSE,
   openBrace |-> FALSE, openParen |-> FALSE]

B2N(b) == IF b THEN 1 ELSE 0

CountFields == {"sqt", "bt", "uvKnown", "uvOther", "sym", "rel"}
FlagFields ==
  {"useState", "useEffect", "importReact", "cors", "syntax", "marketApi",
   "openBrace", "openParen"}

\* the texts with one more fragment than code
OneMore(code) ==
  {[code EXCEPT ![f] = @ + 1] : f \in CountFields}
  \cup {[code EXCEPT ![f] = TRUE] : f \in FlagFields}
  \cup {[code EXCEPT !.func = k] : k \in IF code.func = "none" THEN FuncKinds ELSE {}}

RECURSIVE CodesUpTo(_)
CodesUpTo(n) ==
  IF n = 0 THEN {EmptyCode}
  ELSE LET smaller == CodesUpTo(n - 1)
       IN smaller \cup UNION {OneMore(code) : code \in smaller}

\* the texts a completion can produce
BuilderCodes == CodesUpTo(MaxDefects)

IncludesPlaceholder(code) ==
  code.sqt + code.bt + code.uvKnown + code.uvOther + code.sym > 0
IncludesBacktick(code) ==
  code.bt + code.uvKnown + code.uvOther + code.sym + code.abs > 0
IncludesUseState(code) == code.useState \/ code.stateDecl
IncludesImport(code) == code.importReact

Rep(n, x) == [i \in 1..n |-> x]

errorPatterns ==
  [templateLiteralQuotes |->
     [type |-> "template_literal", severity |-> "high", autoFixable |-> TRUE,
      message |-> "Template literal using single quotes instead of backticks"],
   undefinedVariables |->
     [type |-> "undefined_variable", severity |-> "critical", autoFixable |-> TRUE,
      message |-> "Undefined variable in template literal"],
   missingReactImport |->
     [type |-> "missing_import", severity |-> "high", autoFixable |-> TRUE,
      message |-> "React hook used without import"],
   relativeUrls |->
     [type |-> "logical", severity |-> "high", autoFixable |-> TRUE,
      message |-> "Relative URL will not work in sandbox environment"],
   corsError |->
     [type |-> "cors", severity |-> "critical", autoFixable |-> FALSE,
      message |-> "CORS policy blocking cross-origin request"],
   syntaxErrors |->
     [type |-> "syntax", severity |-> "critical", autoFixable |-> FALSE,
      message |-> "JavaScript syntax error detected"]]

PatternOrder ==
  <<"templateLiteralQuotes", "undefinedVariables", "missingReactImport",
    "relativeUrls", "corsError", "syntaxErrors">>

\* code.match(pattern.regex): the matched texts, in text order
Matches(key, code) ==
  CASE key = "templateLiteralQuotes" -> Rep(code.sqt, "'u/${x}'")
    [] key = "undefinedVariables" ->
         Rep(code.uvKnown, "${symbolsParam}") \o Rep(code.uvOther, "${userQuery}")
    [] key = "relativeUrls" -> Rep(code.rel, "fetch(\"/api/")
    [] key = "corsError" -> Rep(B2N(code.cors), "blocked by CORS policy")
    [] key = "syntaxErrors" -> Rep(B2N(code.syntax), "SyntaxError")
    [] OTHER -> <<>>

DetectedError(type, severity, message, match, autoFixable, fixStrategy) ==
  [type |-> type, severity |-> severity, message |-> <<message, match>>,
   autoFixable |-> autoFixable, fixStrategy |-> fixStrategy]

PatternErrors(key, code) ==
  LET p == errorPatterns[key]
  IN IF key = "missingReactImport"
     THEN IF (code.useState \/ code.useEffect) /\ ~code.importReact
          THEN <<DetectedError(p.type, p.severity, p.message, "", p.autoFixable,
                               "addReactImport")>>
          ELSE <<>>
     ELSE LET m == Matches(key, code)
          IN [i \in 1..Len(m) |->
                DetectedError(p.type, p.severity, p.message, m[i], p.autoFixable, key)]

RECURSIVE AllPatternErrors(_, _)
AllPatternErrors(i, code) ==
  IF i > Len(PatternOrder) THEN <<>>
  ELSE PatternErrors(PatternOrder[i], code) \o AllPatternErrors(i + 1, code)

detectErrors(code, financial) ==
  AllPatternErrors(1, code)
  \o (IF financial /\ ~code.marketApi
      THEN <<DetectedError("logical", "high", "Financial app should use market data API",
                           "", FALSE, None)>>
      ELSE <<>>)
  \o (IF IncludesPlaceholder(code) /\ ~IncludesUseState(code)
      THEN <<DetectedError("logical", "medium",
                           "Template literals used without proper state management",
                           "", TRUE, "addStateManagement")>>
      ELSE <<>>)

StrategyNames ==
  {"templateLiteralQuotes", "undefinedVariables", "addReactImport", "relativeUrls",
   "addStateManagement"}

autoFixStrategies(name, code) ==
  CASE name = "templateLiteralQuotes" ->
         [code EXCEPT !.bt = @ + code.sqt, !.sqt = 0]
    [] name = "undefinedVariables" ->
         [code EXCEPT !.sym = @ + code.uvKnown, !.uvKnown = 0]
    [] name = "addReactImport" ->
         IF IncludesUseState(code) /\ ~code.importReact
         THEN [code EXCEPT !.importReact = TRUE]
         ELSE code
    [] name = "relativeUrls" ->
         [code EXCEPT !.abs = @ + code.rel, !.rel = 0]
    [] name = "addStateManagement" ->
         IF code.sym > 0 /\ ~IncludesUseState(code)
            /\ code.func \in {"exportDefault", "function"}
         THEN [code EXCEPT !.stateDecl = TRUE]
         ELSE code
    [] OTHER -> code

FixLabel(error) == <<error.type, error.message>>

\* a forEach that drops an error whose rewrite left the code as it was
RECURSIVE AutoFixFromDropping(_, _, _)
AutoFixFromDropping(errs, i, acc) ==
  IF i > Len(errs) THEN acc
  ELSE LET error == errs[i]
           fixed == autoFixStrategies(error.fixStrategy, acc.fixedCode)
       IN IF error.autoFixable /\ error.fixStrategy \in StrategyNames
          THEN AutoFixFromDropping(errs, i + 1,
                 IF fixed # acc.fixedCode
                 THEN [acc EXCEPT !.fixedCode = fixed,
                                  !.appliedFixes = Append(@, FixLabel(error))]
                 ELSE acc)
          ELSE AutoFixFromDropping(errs, i + 1,
                 [acc EXCEPT !.remainingErrors = Append(@, error)])

\* errors.forEach of autoFixCode from position i on
RECURSIVE AutoFixFrom(_, _, _)
AutoFixFrom(errs, i, acc) ==
  IF i > Len(errs) THEN acc
  ELSE LET error == errs[i]
           fixed == autoFixStrategies(error.fixStrategy, acc.fixedCode)
       IN IF error.autoFixable /\ error.fixStrategy \in StrategyNames
             /\ fixed # acc.fixedCode
          THEN AutoFixFrom(errs, i + 1,
                 [acc EXCEPT !.fixedCode = fixed,
                             !.appliedFixes = Append(@, FixLabel(error))])
          ELSE AutoFixFrom(errs, i + 1,
                 [acc EXCEPT !.remainingErrors = Append(@, error)])

NoAutoFix ==
  [ran |-> FALSE, success |-> FALSE, defined |-> FALSE, fixedCode |-> EmptyCode,
   appliedFixes |-> <<>>, remainingErrors |-> <<>>]

autoFixCode(code, errs) ==
  LET acc == AutoFixFrom(errs, 1,
               [fixedCode |-> code, appliedFixes |-> <<>>, remainingErrors |-> <<>>])
      applied == Len(acc.appliedFixes) > 0
  IN [ran |-> TRUE, success |-> applied, defined |-> applied,
      fixedCode |-> IF applied THEN acc.fixedCode ELSE EmptyCode,
      appliedFixes |-> acc.appliedFixes, remainingErrors |-> acc.remainingErrors]

validationIssues(code) ==
  (IF code.openBrace THEN <<"Mismatched braces">> ELSE <<>>)
  \o (IF code.openParen THEN <<"Mismatched parentheses">> ELSE <<>>)
  \o (IF IncludesPlaceholder(code) /\ ~IncludesBacktick(code)
      THEN <<"Template literals without backticks">> ELSE <<>>)
  \o (IF IncludesUseState(code) /\ ~IncludesImport(code)
      THEN <<"React hooks without imports">> ELSE <<>>)

validateCodeLax(code) == TRUE
validateCode(code) == validationIssues(code) = <<>>

Suggestion(type) ==
  CASE type = "syntax" -> <<"Check for missing semicolons, brackets, or quotes">>
    [] type = "undefined_variable" ->
         <<"Define variables before using them in template literals">>
    [] type = "missing_import" ->
         <<"Add necessary import statements at the top of the file">>
    [] type = "logical" ->
         <<"Review the logic flow and ensure all dependencies are met">>
    [] type = "cors" -> <<"CORS headers need to be added to the API endpoint">>
    [] OTHER -> <<>>

RECURSIVE Dedup(_)
Dedup(s) ==
  IF s = <<>> THEN <<>>
  ELSE LET front == Dedup(SubSeq(s, 1, Len(s) - 1))
           x == s[Len(s)]
       IN IF \E i \in 1..Len(front) : front[i] = x THEN front ELSE Append(front, x)

RECURSIVE Suggestions(_)
Suggestions(errs) ==
  IF errs = <<>> THEN <<>>
  ELSE Suggestion(Head(errs).type) \o Suggestions(Tail(errs))

generateFixSuggestions(errs) == Dedup(Suggestions(errs))

NoError ==
  [kind |-> "null", error |-> None, attempt |-> 0, failedCode |-> EmptyCode,
   errors |-> <<>>, fixes |-> <<>>, remainingIssues |-> <<>>, suggestions |-> <<>>]

AttemptError(error, n) ==
  [NoError EXCEPT !.kind = "attemptError", !.error = error, !.attempt = n]

createErrorContext(failedCode, errs, fixResult) ==
  [NoError EXCEPT
     !.kind = "errorContext",
     !.failedCode = failedCode,
     !.errors = [i \in 1..Len(errs) |->
                   [type |-> errs[i].type, message |-> errs[i].message,
                    severity |-> errs[i].severity,
                    autoFixable |-> errs[i].autoFixable]],
     !.fixes = fixResult.appliedFixes,
     !.remainingIssues = [i \in 1..Len(fixResult.remainingErrors) |->
                            fixResult.remainingErrors[i].message],
     !.suggestions = generateFixSuggestions(fixResult.remainingErrors)]

\* ------------------------------------------- agentic-workflow retry loop
BuilderContext ==
  [relevantFiles |-> "currentFiles", patterns |-> <<>>,
   constraints |-> <<"Generate complete code", "Use TypeScript">>,
   examples |-> "", totalTokens |-> 300]

\* the arguments of runBuilderAgentStreaming / runBuilderAgent
BuilderArgs ==
  [userRequest |-> [text |-> "userRequest"], context |-> BuilderContext,
   plannerOutput |-> [buildInstructions |-> "buildInstructions"]]

NoBuilderArgs ==
  [userRequest |-> [text |-> None], context |-> [totalTokens |-> 0],
   plannerOutput |-> [buildInstructions |-> None]]

\* the error context a builder invocation was handed, if any
ErrorContextOf(args) ==
  IF "errorContext" \in DOMAIN args.context THEN args.context.errorContext ELSE NoError

NoBuilderResult == [success |-> FALSE, code |-> EmptyCode, error |-> None, attempt |-> 0]

NoRetryResult ==
  [type |-> None, code |-> EmptyCode, attempts |-> 0, appliedFixes |-> <<>>,
   error |-> None, lastErrors |-> NoError]

SuccessResult(code, n, appliedFixes) ==
  [NoRetryResult EXCEPT !.type = "success", !.code = code, !.attempts = n,
                        !.appliedFixes = appliedFixes]

FailureResult(mr, le) ==
  [NoRetryResult EXCEPT !.type = "failure", !.error = "Max retries exceeded",
                        !.attempts = mr + 1, !.lastErrors = le]

LoopBoundOneMore(mr) == mr + 2
LoopBound(mr) == mr + 1

errorsDetectedAlways(errs) == Len(errs) >= 0
errorsDetected(errs) == Len(errs) > 0

\* the push keeping the fixes of the current attempt only
pushFixesOfThisAttempt(all, applied) == applied

\* allAppliedFixes.push(...autoFixResult.appliedFixes)
pushFixes(all, applied) == all \o applied

AutoFixAccepted(fix) ==
  /\ fix.success
  /\ Len(fix.remainingErrors) = 0
  /\ validateCode(fix.fixedCode)

RetryInit ==
  /\ rpc = "idle"
  /\ streaming = FALSE
  /\ maxRetries = 0
  /\ controller = "open"
  /\ sent = <<>>
  /\ attempt = 0
  /\ builderCalls = 0
  /\ builderArgs = NoBuilderArgs
  /\ textParts = 0
  /\ builderResult = NoBuilderResult
  /\ errors = <<>>
  /\ autoFixResult = NoAutoFix
  /\ lastError = NoError
  /\ allAppliedFixes = <<>>
  /\ fixLog = <<>>
  /\ retryResult = NoRetryResult

\* the loop test and the head of iteration a, up to the completion call of the
\* builder; le is the value of lastError on entry
EnterAttempt(a, str, mr, st, evs, le) ==
  /\ attempt' = a
  /\ textParts' = 0
  /\ IF a > LoopBound(mr)
     THEN /\ rpc' = "done"
          /\ retryResult' = FailureResult(mr, le)
          /\ sent' = evs
          /\ UNCHANGED <<builderCalls, builderArgs>>
     ELSE IF str /\ ~CanEnqueue(st)
     THEN /\ rpc' = "threw"
          /\ sent' = evs
          /\ UNCHANGED <<retryResult, builderCalls, builderArgs>>
     ELSE /\ rpc' = "building"
          /\ sent' = IF str THEN Append(evs, Event("execution-attempt", "", NoProgress))
                     ELSE evs
          /\ builderCalls' = builderCalls + 1
          /\ builderArgs' = BuilderArgs
          /\ UNCHANGED retryResult

\* executeWithRetryStreaming (str) or executeWithRetry is called
RetryCall(str, mr, st) ==
  /\ rpc = "idle"
  /\ streaming' = str
  /\ maxRetries' = mr
  /\ controller' = st
  /\ lastError' = NoError
  /\ allAppliedFixes' = <<>>
  /\ fixLog' = <<>>
  /\ EnterAttempt(1, str, mr, st, sent, NoError)
  /\ UNCHANGED <<builderResult, errors, autoFixResult>>

\* the builder did not succeed: lastError = { error, attempt }; continue
BuilderFailed(error) ==
  /\ builderResult' = [NoBuilderResult EXCEPT !.error = error, !.attempt = attempt]
  /\ errors' = <<>>
  /\ autoFixResult' = NoAutoFix
  /\ lastError' = AttemptError(error, attempt)
  /\ EnterAttempt(attempt + 1, streaming, maxRetries, controller, sent,
                  AttemptError(error, attempt))
  /\ UNCHANGED <<streaming, maxRetries, controller, allAppliedFixes, fixLog>>

\* the completion call or its text stream throws inside the builder
BuilderThrows ==
  /\ rpc = "building"
  /\ BuilderFailed("TransportError")

\* a text part arrives and is streamed to the client
BuilderChunk ==
  /\ rpc = "building"
  /\ textParts < MaxChunks
  /\ IF streaming /\ ~CanEnqueue(controller)
     THEN BuilderFailed(ClosedError)
     ELSE /\ textParts' = textParts + 1
          /\ sent' = IF streaming
                     THEN Append(sent, Event("code-generation", "", NoProgress))
                     ELSE sent
          /\ UNCHANGED <<rpc, streaming, maxRetries, controller, attempt, builderCalls,
                         builderArgs, builderResult, errors, autoFixResult, lastError,
                         allAppliedFixes, fixLog, retryResult>>

\* the text stream ends: the builder returns the code, the loop detects,
\* fixes and validates it
BuilderDone ==
  /\ rpc = "building"
  /\ \E code \in (IF textParts = 0 THEN {EmptyCode} ELSE BuilderCodes) :
       LET errs == detectErrors(code, FALSE)
           fix == autoFixCode(code, errs)
           fixes == pushFixes(allAppliedFixes, fix.appliedFixes)
       IN /\ builderResult' = [NoBuilderResult EXCEPT !.success = TRUE, !.code = code,
                                                     !.attempt = attempt]
          /\ errors' = errs
          /\ IF ~errorsDetected(errs)
             THEN /\ rpc' = "done"
                  /\ retryResult' = SuccessResult(code, attempt, allAppliedFixes)
                  /\ autoFixResult' = NoAutoFix
                  /\ UNCHANGED <<sent, attempt, textParts, builderCalls, builderArgs,
                                 lastError, allAppliedFixes, fixLog>>
             ELSE IF streaming /\ ~CanEnqueue(controller)
             THEN /\ autoFixResult' = NoAutoFix
                  /\ lastError' = AttemptError(ClosedError, attempt)
                  /\ EnterAttempt(attempt + 1, streaming, maxRetries, controller, sent,
                                  AttemptError(ClosedError, attempt))
                  /\ UNCHANGED <<allAppliedFixes, fixLog>>
             ELSE /\ autoFixResult' = fix
                  /\ allAppliedFixes' = fixes
                  /\ fixLog' = Append(fixLog, fix.appliedFixes)
                  /\ IF AutoFixAccepted(fix)
                     THEN /\ rpc' = "done"
                          /\ retryResult' = SuccessResult(fix.fixedCode, attempt, fixes)
                          /\ sent' = IF streaming
                                     THEN Append(sent, Event("error-detection", "", NoProgress))
                                     ELSE sent
                          /\ UNCHANGED <<attempt, textParts, builderCalls, builderArgs,
                                         lastError>>
                     ELSE /\ lastError' = createErrorContext(code, errs, fix)
                          /\ EnterAttempt(attempt + 1, streaming, maxRetries, controller,
                                          IF streaming
                                          THEN Append(sent, Event("error-detection", "",
                                                                  NoProgress))
                                          ELSE sent,
                                          createErrorContext(code, errs, fix))
  /\ UNCHANGED <<streaming, maxRetries, controller>>

\* the client of the workflow stream disconnects
RetryClientCancel ==
  /\ rpc = "building"
  /\ streaming
  /\ controller = "open"
  /\ controller' = "cancelled"
  /\ UNCHANGED <<rpc, streaming, maxRetries, sent, attempt, builderCalls, builderArgs,
                 textParts, builderResult, errors, autoFixResult, lastError,
                 allAppliedFixes, fixLog, retryResult>>

RetryNext ==
  \/ \E str \in BOOLEAN, mr \in 0..MaxRetriesBound, st \in {"open", "cancelled"} :
       (str \/ st = "open") /\ RetryCall(str, mr, st) /\ UNCHANGED notRetryVars
  \/ BuilderThrows /\ UNCHANGED notRetryVars
  \/ BuilderChunk /\ UNCHANGED notRetryVars
  \/ BuilderDone /\ UNCHANGED notRetryVars
  \/ RetryClientCancel /\ UNCHANGED notRetryVars

\* ======================================================================
\* IntentAnalyzer.analyzeIntent
\* ======================================================================
\* ----------------------------------------------------------- the keywords
\* A prompt is the sequence of its words.
Words == {"add", "THIS", "Chart", "dark"}

toLowerCase(w) ==
  CASE w = "THIS" -> "this"
    [] w = "Chart" -> "chart"
    [] w = "Toggle" -> "toggle"
    [] w = "F" -> "f"
    [] w = "Add" -> "add"
    [] w = "State" -> "state"
    [] w = "Effect" -> "effect"
    [] w = "Memo" -> "memo"
    [] w = "Error" -> "error"
    [] w = "Header.tsx" -> "header.tsx"
    [] w = "Footer.tsx" -> "footer.tsx"
    [] w = "Toggle.tsx" -> "toggle.tsx"
    [] OTHER -> w

StopWords == {"this", "that", "with", "from", "they", "have", "will", "been", "were"}

MinKeywordLength == 3
MaxKeywords == 5

promptWords(prompt) ==
  LET lower == [i \in 1..Len(prompt) |-> toLowerCase(prompt[i])]
      long(w) == Len(w) > MinKeywordLength
      content(w) == w \notin StopWords
  IN SelectSeq(SelectSeq(lower, long), content)

\* extractKeywords keeping every word that is not a stop word
extractKeywordsOfAnyLength(prompt) ==
  LET lower == [i \in 1..Len(prompt) |-> toLowerCase(prompt[i])]
      content(w) == w \notin StopWords
  IN SubSeq(SelectSeq(lower, content), 1, Min(MaxKeywords, Len(SelectSeq(lower, content))))

extractKeywords(prompt) ==
  SubSeq(promptWords(prompt), 1, Min(MaxKeywords, Len(promptWords(prompt))))

\* ------------------------------------------------------------ the analysis
\* confidence is counted in hundredths
FallbackConfidence == 30

fallbackAnalysis(prompt) ==
  [editType |-> FallbackAnalysis.editType,
   surgicalEdit |-> FallbackAnalysis.surgicalEdit,
   targetFiles |-> FallbackAnalysis.targetFiles,
   searchTerms |-> extractKeywords(prompt),
   confidence |-> FallbackConfidence]

NoIntentResult ==
  [editType |-> None, surgicalEdit |-> FALSE, targetFiles |-> <<>>, searchTerms |-> <<>>,
   confidence |-> 0]

\* what a parsed object with a member holds: an analysis, an analysis
\* without targetFiles, or an object without searchTerms
ValueKinds == {"analysis", "noTargetFiles", "noSearchTerms"}

ParsedIntent ==
  [editType |-> "UPDATE", surgicalEdit |-> TRUE, targetFiles |-> <<TRUE>>,
   searchTerms |-> <<"chart">>, confidence |-> 90]

\* confidence of the best matching example; getBestExample returns null when
\* no example matches
ExampleConfidences == {13, 100}
NoExample == 0

enhanceWithEditExamples(a, prompt, example) ==
  IF example = NoExample THEN a
  ELSE [a EXCEPT !.confidence = (a.confidence + example) \div 2,
                 !.searchTerms = Dedup(a.searchTerms \o <<"example">> \o promptWords(prompt))]

NotParsed == [threw |-> FALSE, error |-> None, value |-> NullMatch]

IntentInit ==
  /\ ipc = "idle"
  /\ userPrompt = <<>>
  /\ responseText = <<>>
  /\ parsedResponse = NotParsed
  /\ caughtError = None
  /\ intentResult = NoIntentResult

\* analyzeIntent up to the await of the completion call
AnalyzeIntent(prompt) ==
  /\ ipc = "idle"
  /\ ipc' = "awaiting"
  /\ userPrompt' = prompt
  /\ UNCHANGED <<responseText, parsedResponse, caughtError, intentResult>>

\* streamText or the text stream rejects
CompletionFails ==
  /\ ipc = "awaiting"
  /\ ipc' = "returned"
  /\ caughtError' = "completion failed"
  /\ intentResult' = fallbackAnalysis(userPrompt)
  /\ UNCHANGED <<userPrompt, responseText, parsedResponse>>

\* the text stream ends: parse, enrich, log, return; any exception is caught
CompletionReturns(text, kind, example) ==
  /\ ipc = "awaiting"
  /\ ipc' = "returned"
  /\ responseText' = text
  /\ LET p == parsedResponses[text]
         isAnalysis == Len(p.value) > 2 /\ p.value[1] = "{"
         error == IF p.threw THEN p.error
                  ELSE IF ~isAnalysis \/ kind # "analysis" THEN TypeErrorMsg
                  ELSE None
     IN /\ parsedResponse' = p
        /\ caughtError' = error
        /\ intentResult' = IF error # None THEN fallbackAnalysis(userPrompt)
                           ELSE enhanceWithEditExamples(ParsedIntent, userPrompt, example)
  /\ UNCHANGED userPrompt

Prompts == SeqsUpTo(Words, MaxWords)

IntentNext ==
  \/ ipc = "idle" /\ \E prompt \in Prompts : AnalyzeIntent(prompt) /\ UNCHANGED notIntentVars
  \/ CompletionFails /\ UNCHANGED notIntentVars
  \/ \E text \in Responses, kind \in ValueKinds, example \in ExampleConfidences \cup {NoExample} :
       CompletionReturns(text, kind, example) /\ UNCHANGED notIntentVars

\* ======================================================================
\* SurgicalEditor.performPrecisionEdit on one file
\* ======================================================================
\* A file content or a completion text is a sequence of tokens: "nl" a run of
\* white space holding one line break, "a" and "b" runs of code, "f" a fence of
\* three backticks.
CodeTokens == {"nl", "a", "b"}

\* the contents with which codebaseContext.files[targetFile] is truthy
Contents == SeqsUpTo(CodeTokens, MaxContent) \ {<<>>}

\* String.prototype.trim
RECURSIVE trim(_)
trim(s) ==
  IF s = <<>> THEN s
  ELSE IF s[1] \in {"nl", " "} THEN trim(Tail(s))
  ELSE IF s[Len(s)] \in {"nl", " "} THEN trim(SubSeq(s, 1, Len(s) - 1))
  ELSE s

\* response.match(/```(?:tsx?|jsx?|javascript|typescript)?\s*([\s\S]*?)\s*```/):
\* the text between the first two fences, trimmed; else the trimmed response
extractModifiedCode(response) ==
  LET fences == {i \in 1..Len(response) : response[i] = "f"}
      open == CHOOSE i \in fences : \A j \in fences : i <= j
      later == fences \ {open}
      close == CHOOSE i \in later : \A j \in later : i <= j
  IN IF Cardinality(fences) >= 2 THEN trim(SubSeq(response, open + 1, close - 1))
     ELSE trim(response)

\* content.split('\n')
RECURSIVE split(_)
split(s) ==
  LET breaks == {k \in 1..Len(s) : s[k] = "nl"}
  IN IF breaks = {} THEN <<s>>
     ELSE LET k == CHOOSE b \in breaks : \A c \in breaks : b <= c
          IN <<SubSeq(s, 1, k - 1)>> \o split(SubSeq(s, k + 1, Len(s)))

\* lines[i] of a JavaScript array: undefined beyond its end, which differs
\* from every line, the empty one included
lineAt(lines, i) == IF i <= Len(lines) THEN <<lines[i]>> ELSE <<>>

\* the loop of calculateChangedLines from line i on, i counted from 1
RECURSIVE changedLinesFrom(_, _, _, _)
changedLinesFrom(originalLines, modifiedLines, i, maxLines) ==
  IF i > maxLines THEN <<>>
  ELSE (IF lineAt(originalLines, i) # lineAt(modifiedLines, i) THEN <<i>> ELSE <<>>)
         \o changedLinesFrom(originalLines, modifiedLines, i + 1, maxLines)

\* the loop running over the lines both contents have
calculateChangedLinesOfShorter(original, modified) ==
  LET originalLines == split(original)
      modifiedLines == split(modified)
      minLines == IF Len(originalLines) <= Len(modifiedLines)
                  THEN Len(originalLines) ELSE Len(modifiedLines)
  IN changedLinesFrom(originalLines, modifiedLines, 1, minLines)

\* SurgicalEditor.calculateChangedLines
calculateChangedLines(original, modified) ==
  LET originalLines == split(original)
      modifiedLines == split(modified)
      maxLines == IF Len(originalLines) >= Len(modifiedLines)
                  THEN Len(originalLines) ELSE Len(modifiedLines)
  IN changedLinesFrom(originalLines, modifiedLines, 1, maxLines)

\* the texts a completion answers the surgical prompt with: a content alone,
\* in fences, or in fences after a line of prose
EditResponses ==
  LET bodies == Contents \cup {<<>>}
  IN bodies \cup {<<"f">> \o c \o <<"f">> : c \in bodies}
            \cup {<<"a", "nl", "f">> \o c \o <<"f">> : c \in bodies}

NoEdit == [returned |-> FALSE, originalContent |-> <<>>, modifiedContent |-> <<>>,
           linesChanged |-> <<>>]

EditInit ==
  /\ epc = "idle"
  /\ originalContent = <<>>
  /\ editResponse = <<>>
  /\ precisionEdit = NoEdit

\* performPrecisionEdit up to the await of the completion call
PerformPrecisionEdit(content) ==
  /\ epc = "idle"
  /\ epc' = "awaiting"
  /\ originalContent' = content
  /\ UNCHANGED <<editResponse, precisionEdit>>

\* streamText or the text stream rejects: the catch block returns null
EditCompletionFails ==
  /\ epc = "awaiting"
  /\ epc' = "returned"
  /\ precisionEdit' = NoEdit
  /\ UNCHANGED <<originalContent, editResponse>>

\* the text stream ends: extract the code and compare it with the original
EditCompletionReturns(response) ==
  /\ epc = "awaiting"
  /\ epc' = "returned"
  /\ editResponse' = response
  /\ LET extractedCode == extractModifiedCode(response)
     IN precisionEdit' =
          IF extractedCode = <<>> \/ extractedCode = originalContent THEN NoEdit
          ELSE [returned |-> TRUE, originalContent |-> originalContent,
                modifiedContent |-> extractedCode,
                linesChanged |-> calculateChangedLines(originalContent, extractedCode)]
  /\ UNCHANGED originalContent

EditNext ==
  \/ epc = "idle" /\ \E content \in Contents : PerformPrecisionEdit(content) /\ UNCHANGED notEditVars
  \/ EditCompletionFails /\ UNCHANGED notEditVars
  \/ epc = "awaiting" /\ \E response \in EditResponses :
       EditCompletionReturns(response) /\ UNCHANGED notEditVars

\* ======================================================================
\* The conversation store called by any number of requests
\* ======================================================================
\* addMessage and recordFileEdit run to completion, so calls made by
\* concurrently served requests reach the store as one sequence.  Most calls
\* carry the usual payload; up to MaxMarked of them carry another one, which
\* makes the position of an entry visible.
UsualMessage == [role |-> "assistant", content |-> "plain"]
MarkedMessage == [role |-> "user", content |-> "tailwind"]
UsualEdit == [fileName |-> "App.jsx", editType |-> "UPDATE"]
MarkedEdit == [fileName |-> "Chart.jsx", editType |-> "ENHANCE"]

Count(s, x) == Cardinality({i \in 1..Len(s) : s[i] = x})

Marked == Count(added, MarkedMessage) + Count(recorded, MarkedEdit)

StoreInit ==
  /\ added = <<>>
  /\ recorded = <<>>

AddMessage(m) ==
  /\ Len(added) < MaxMessages + Overshoot
  /\ m = MarkedMessage => Marked < MaxMarked
  /\ state' = addMessage(state, m.role, m.content)
  /\ added' = Append(added, m)
  /\ UNCHANGED recorded

RecordFileEdit(e) ==
  /\ Len(recorded) < MaxRecentEdits + Overshoot
  /\ e = MarkedEdit => Marked < MaxMarked
  /\ state' = recordFileEdit(state, e.fileName, e.editType)
  /\ recorded' = Append(recorded, e)
  /\ UNCHANGED added

StoreNext ==
  \/ \E m \in {UsualMessage, MarkedMessage} : AddMessage(m) /\ UNCHANGED notStoreVars
  \/ \E e \in {UsualEdit, MarkedEdit} : RecordFileEdit(e) /\ UNCHANGED notStoreVars

\* ======================================================================
\* CodebaseAnalyzer: the regex chunker
\* ======================================================================
\* A source line is a sequence of tokens separated by white space: the
\* keywords of the boundary patterns, identifiers, " " for leading white space
\* and "x" for text that is no \w+ word ("{", "() {", "}").  A content is its
\* lines joined by "nl".
IsWord(tok) == tok \notin {" ", "x", "nl"}

LineForms ==
  {<<"function", "Foo", "x">>, <<"function", "Bar", "x">>, <<"x">>,
   <<" ", "const", "Foo">>, <<"async", "function", "Foo">>,
   <<"export", "interface", "Bar">>, <<"let", "Foo">>,
   <<"export", "default", "function", "x">>}

\* Array.prototype.join('\n')
RECURSIVE join(_)
join(ls) ==
  IF ls = <<>> THEN <<>>
  ELSE IF Len(ls) = 1 THEN ls[1]
  ELSE ls[1] \o <<"nl">> \o join(Tail(ls))

ChunkContents ==
  {join(ls) : ls \in SeqsUpTo(LineForms, MaxLines)}

\* the keys of the patterns object, in the order Object.entries yields them
patterns == <<"reactComponent", "function", "class", "interface", "variable">>

\* the position after an optional group such as (export\s+)?
skip(t, p, word) == IF p <= Len(t) /\ t[p] = word THEN p + 1 ELSE p

\* (?:k1|k2|...)\s+(\w+) at position p: the captured name, or no match
declaration(t, p, keywords) ==
  IF p + 1 <= Len(t) /\ t[p] \in keywords /\ IsWord(t[p + 1])
  THEN <<t[p + 1]>> ELSE NullMatch

\* line.match(pattern): the captured groups up to the name, or no match
match(line, type) ==
  CASE type = "reactComponent" ->
         declaration(line, skip(line, skip(line, 1, "export"), "default"),
                     {"const", "function", "class"})
    [] type = "function" ->
         declaration(line, skip(line, skip(line, 1, "export"), "async"), {"function"})
    [] type = "class" ->
         declaration(line, skip(line, 1, "export"), {"class"})
    [] type = "interface" ->
         declaration(line, skip(line, 1, "export"), {"interface"})
    [] type = "variable" ->
         declaration(line, skip(line, 1, "export"), {"const", "let", "var"})

mapPatternToType(pattern) ==
  CASE pattern = "reactComponent" -> "component"
    [] pattern = "function" -> "function"
    [] pattern = "class" -> "class"
    [] pattern = "interface" -> "interface"
    [] pattern = "variable" -> "variable"
    [] OTHER -> "other"

\* currentChunk = null
NoChunk == [open |-> FALSE, startLine |-> 0, type |-> None, name |-> None]

\* a chunk that ends on the line that starts the next one
savedThroughBoundary(lines, current, end, saved) ==
  IF ~current.open THEN saved
  ELSE Append(saved, [startLine |-> current.startLine, endLine |-> end,
                      type |-> current.type, name |-> current.name,
                      content |-> join(SubSeq(lines, current.startLine + 1, end))])

\* a chunk for the lines that precede the first boundary, too
savedFromTheTop(lines, current, end, saved) ==
  Append(saved, [startLine |-> current.startLine, endLine |-> end - 1,
                 type |-> IF current.open THEN current.type ELSE "other",
                 name |-> current.name,
                 content |-> join(SubSeq(lines, current.startLine + 1, end))])

\* "Save previous chunk" and "Save final chunk": the chunks with the open
\* chunk, if any, closed before line end
saveChunk(lines, current, end, saved) ==
  IF ~current.open THEN saved
  ELSE Append(saved, [startLine |-> current.startLine, endLine |-> end - 1,
                      type |-> current.type, name |-> current.name,
                      content |-> join(SubSeq(lines, current.startLine + 1, end))])

\* the loop over the lines, from line i (counted from 0)
RECURSIVE chunkFrom(_, _, _, _)
chunkFrom(lines, i, current, saved) ==
  IF i >= Len(lines) THEN saveChunk(lines, current, Len(lines), saved)
  ELSE LET line == trim(lines[i + 1])
           hits == {k \in 1..Len(patterns) : match(line, patterns[k]) # NullMatch}
       IN IF hits = {} THEN chunkFrom(lines, i + 1, current, saved)
          ELSE LET type == patterns[CHOOSE k \in hits : \A h \in hits : k <= h]
                   found == match(line, type)
               IN chunkFrom(lines, i + 1,
                            [open |-> TRUE, startLine |-> i,
                             type |-> mapPatternToType(type),
                             name |-> found[Len(found)]],
                            saveChunk(lines, current, i, saved))

chunkCodeASTBased(text) == chunkFrom(split(text), 0, NoChunk, <<>>)

ChunkInit ==
  /\ cpc = "idle"
  /\ fileText = <<>>
  /\ codeChunks = <<>>

ChunkFile(text) ==
  /\ cpc = "idle"
  /\ cpc' = "returned"
  /\ fileText' = text
  /\ codeChunks' = chunkCodeASTBased(text)

ChunkNext ==
  cpc = "idle" /\ \E text \in ChunkContents : ChunkFile(text) /\ UNCHANGED notChunkVars

\* ======================================================================
\* CodebaseAnalyzer: the index and the relevance search
\* ======================================================================
\* Scores are kept exact: the keyword score of a file is a number of tenths
\* over the number of query words, and the combined score a number of
\* hundredths over the number of query words.
PerOccurrence == 1      \* occurrences * 0.1, in tenths
MaxPerWord == 10        \* "Max 1 point per word", in tenths
KeywordWeight == 4      \* keywordScore * 0.4, in tenths
SemanticWeight == 6     \* semanticScore * 0.6, in tenths
RelevanceThreshold == 1 \* totalScore > 0.1, in tenths
DefaultMaxFiles == 5

FilePaths == {"Header.tsx", "Footer.tsx", "Toggle.tsx"}

\* the file contents that are indexed
Sources ==
  {join(ls) : ls \in
     {<<<<"x">>>>,
      <<<<"const", "Foo">>, <<"toggle">>>>,
      <<<<"const", "Toggle">>, <<"toggle">>>>,
      <<<<"toggle", "toggle", "toggle">>, <<"const", "Foo">>>>,
      <<<<"const", "Toggle">>, <<"toggle", "toggle">>, <<"let", "toggle">>>>,
      <<<<"const", "dark", "mode", "toggle">>, <<"dark", "mode", "toggle">>,
        <<"dark", "mode">>>>}}

\* the user queries, split at white space
Queries ==
  {<<"dark", "mode", "toggle">>, <<"toggle">>, <<"Toggle", "ui">>, <<"header">>,
   <<"">>, <<"c++">>, <<"toggle", "header">>}

\* word.length > 2
LongerThanTwo(word) == word \notin {"", "ui"}

\* new RegExp(word, 'g') throws a SyntaxError
InvalidRegExp(word) == word = "c++"

\* the matches of the regular expression word in one token of a text
occurrencesIn(word, tok) ==
  IF tok = word \/ (tok = "header.tsx" /\ word = "header")
                \/ (tok = "toggle.tsx" /\ word = "toggle")
  THEN 1 ELSE 0

RECURSIVE occurrences(_, _)
occurrences(word, text) ==
  IF text = <<>> THEN 0
  ELSE occurrencesIn(word, text[1]) + occurrences(word, Tail(text))

\* analysis.filePath.toLowerCase() + ' ' +
\* analysis.chunks.map(c => c.content.toLowerCase()).join(' ')
RECURSIVE chunkTexts(_)
chunkTexts(cs) ==
  IF cs = <<>> THEN <<>>
  ELSE <<" ">> \o [i \in 1..Len(cs[1].content) |-> toLowerCase(cs[1].content[i])]
       \o chunkTexts(Tail(cs))

fileContent(analysis) == <<toLowerCase(analysis.filePath)>> \o chunkTexts(analysis.chunks)

\* the sum of the loop of calculateKeywordScore over the query words, in tenths
RECURSIVE wordScores(_, _)
wordScores(queryWords, text) ==
  IF queryWords = <<>> THEN 0
  ELSE (IF LongerThanTwo(queryWords[1])
        THEN Min(occurrences(queryWords[1], text) * PerOccurrence, MaxPerWord)
        ELSE 0)
       + wordScores(Tail(queryWords), text)

\* calculateKeywordScore, in tenths over the number of query words
calculateKeywordScore(query, analysis) ==
  LET queryWords == [i \in 1..Len(query) |-> toLowerCase(query[i])]
  IN Min(wordScores(queryWords, fileContent(analysis)), MaxPerWord * Len(queryWords))

\* createEmbedding returns null, so semanticScore stays 0
semanticScore == 0

\* totalScore, in hundredths over the number of query words
totalScore(query, analysis) ==
  calculateKeywordScore(query, analysis) * KeywordWeight + semanticScore * SemanticWeight

\* totalScore > 0.1
AboveThreshold(query, analysis) ==
  totalScore(query, analysis) > RelevanceThreshold * 10 * Len(query)

\* the array with the item appended, whatever its score
insertLast(sorted, item) == Append(sorted, item)

\* the place Array.prototype.sort gives an item among those that precede it:
\* after every item whose score is not smaller (the sort is stable)
insertByScore(sorted, item) ==
  LET ahead == {i \in 1..Len(sorted) : sorted[i].score >= item.score}
      k == IF ahead = {} THEN 0 ELSE CHOOSE i \in ahead : \A j \in ahead : j <= i
  IN SubSeq(sorted, 1, k) \o <<item>> \o SubSeq(sorted, k + 1, Len(sorted))

\* scoredFiles.sort((a, b) => b.score - a.score)
RECURSIVE sortByScore(_)
sortByScore(scored) ==
  IF scored = <<>> THEN <<>>
  ELSE insertByScore(sortByScore(SubSeq(scored, 1, Len(scored) - 1)), Last(scored))

\* Array.prototype.slice(0, n) for n >= 0
sliceTo(s, n) == SubSeq(s, 1, Min(n, Len(s)))

NoSearch == [status |-> "none", files |-> <<>>]

\* the chunks analyzeFile computes for each of the contents
sourceChunks == [text \in Sources |-> chunkCodeASTBased(text)]

\* the analyses analyzeFile can store, and for each query the combined score
\* and the threshold test of each of them
storedAnalyses ==
  {[filePath |-> filePath, chunks |-> sourceChunks[text]] :
     filePath \in FilePaths, text \in Sources}

scoredAnalyses ==
  [query \in Queries |->
     [analysis \in storedAnalyses |->
        [score |-> totalScore(query, analysis),
         relevant |-> AboveThreshold(query, analysis)]]]

findRelevantFiles(analyses, query, maxFilesArg) ==
  IF analyses # <<>> /\ \E i \in 1..Len(query) :
       LongerThanTwo(toLowerCase(query[i])) /\ InvalidRegExp(toLowerCase(query[i]))
  THEN [status |-> "threw", files |-> <<>>]
  ELSE LET scoredFiles ==
             SelectSeq([i \in 1..Len(analyses) |->
                          [analysis |-> analyses[i],
                           score |-> scoredAnalyses[query][analyses[i]].score]],
                       LAMBDA item : scoredAnalyses[query][item.analysis].relevant)
           top == sliceTo(sortByScore(scoredFiles), maxFilesArg)
       IN [status |-> "returned", files |-> [i \in 1..Len(top) |-> top[i].analysis.filePath]]

AnalyzerInit ==
  /\ fileAnalyses = <<>>
  /\ searchQuery = <<>>
  /\ searchMax = 0
  /\ relevant = NoSearch

\* analyzeFile: Map.prototype.set keeps the place of a key that is present
AnalyzeFile(filePath, text) ==
  LET analysis == [filePath |-> filePath, chunks |-> sourceChunks[text]]
      present == {i \in 1..Len(fileAnalyses) : fileAnalyses[i].filePath = filePath}
  IN /\ fileAnalyses' =
          IF present = {} THEN Append(fileAnalyses, analysis)
          ELSE [i \in 1..Len(fileAnalyses) |->
                  IF i \in present THEN analysis ELSE fileAnalyses[i]]
     /\ relevant' = NoSearch
     /\ searchQuery' = <<>>
     /\ searchMax' = 0

\* findRelevantFiles, from the resumption after createEmbedding
FindRelevantFiles(query, maxFilesArg) ==
  /\ searchQuery' = query
  /\ searchMax' = maxFilesArg
  /\ relevant' = findRelevantFiles(fileAnalyses, query, maxFilesArg)
  /\ UNCHANGED fileAnalyses

AnalyzerNext ==
  \/ \E filePath \in FilePaths, text \in Sources :
       AnalyzeFile(filePath, text) /\ UNCHANGED notAnalyzerVars
  \/ \E query \in Queries, maxFilesArg \in (0..MaxFilesArg) \cup {DefaultMaxFiles} :
       FindRelevantFiles(query, maxFilesArg) /\ UNCHANGED notAnalyzerVars

\* ======================================================================
\* EditExamplesV2: the catalog of edit patterns
\* ======================================================================
\* A string is a sequence of tokens: words, parts of camel-case words, and
\* " " for white space.
lowerCase(str) == [i \in 1..Len(str) |-> toLowerCase(str[i])]

\* String.prototype.includes
includes(str, part) ==
  \E i \in 0..(Len(str) - Len(part)) : SubSeq(str, i + 1, i + Len(part)) = part

\* three of the twelve entries of the patterns array, in its order
editPatterns ==
  <<[name |-> "Bug Fixes",
     applicableScenarios |->
       <<<<"fix", " ", "bug">>, <<"resolve", " ", "error">>, <<"correct", " ", "issue">>>>,
     examples |->
       <<[pattern |-> "FIX_BUG", editType |-> "FIX",
          searchTerms |-> <<<<"error">>, <<"bug">>, <<"issue">>, <<"problem">>>>,
          confidence |-> "medium"]>>],
    [name |-> "State Management",
     applicableScenarios |->
       <<<<"add", " ", "state">>, <<"update", " ", "state">>, <<"manage", " ", "state">>>>,
     examples |->
       <<[pattern |-> "ADD_STATE", editType |-> "ENHANCE",
          searchTerms |-> <<<<"use", "State">>, <<"state">>, <<"set", "State">>>>,
          confidence |-> "high"]>>],
    [name |-> "Hook Usage",
     applicableScenarios |->
       <<<<"use", " ", "hook">>, <<"custom", " ", "hook">>, <<"react", " ", "hooks">>>>,
     examples |->
       <<[pattern |-> "ADD_HOOKS", editType |-> "ENHANCE",
          searchTerms |->
            <<<<"use">>, <<"hook">>, <<"use", "State">>, <<"use", "Effect">>,
              <<"use", "Memo">>>>,
          confidence |-> "high"]>>]>>

confidenceOrder(confidence) ==
  CASE confidence = "high" -> 3
    [] confidence = "medium" -> 2
    [] confidence = "low" -> 1

\* pattern.applicableScenarios.some(scenario => promptLower.includes(...))
scenarioMatch(pattern, promptLower) ==
  \E k \in 1..Len(pattern.applicableScenarios) :
    includes(promptLower, lowerCase(pattern.applicableScenarios[k]))

\* a term overlaps when an example term is part of it
termOverlapOneWay(example, searchTerms) ==
  \E t \in 1..Len(searchTerms), e \in 1..Len(example.searchTerms) :
    includes(lowerCase(searchTerms[t]), lowerCase(example.searchTerms[e]))

\* searchTerms.some(term => example.searchTerms.some(exampleTerm => ...))
termOverlap(example, searchTerms) ==
  \E t \in 1..Len(searchTerms), e \in 1..Len(example.searchTerms) :
    \/ includes(lowerCase(searchTerms[t]), lowerCase(example.searchTerms[e]))
    \/ includes(lowerCase(example.searchTerms[e]), lowerCase(searchTerms[t]))

\* the first inner loop: the examples of a pattern with the requested type
RECURSIVE pushOfType(_, _, _)
pushOfType(found, examples, editType) ==
  IF examples = <<>> THEN found
  ELSE pushOfType(IF examples[1].editType = editType
                  THEN Append(found, examples[1]) ELSE found,
                  Tail(examples), editType)

\* the second inner loop: the examples with a term overlap that are not yet
\* among the matches
RECURSIVE pushOverlapping(_, _, _)
pushOverlapping(found, examples, searchTerms) ==
  IF examples = <<>> THEN found
  ELSE pushOverlapping(
         IF termOverlap(examples[1], searchTerms)
            /\ \A i \in 1..Len(found) : found[i] # examples[1]
         THEN Append(found, examples[1]) ELSE found,
         Tail(examples), searchTerms)

\* the loop over this.patterns
RECURSIVE matchesFrom(_, _, _, _, _)
matchesFrom(found, rest, promptLower, editType, searchTerms) ==
  IF rest = <<>> THEN found
  ELSE LET typed == IF scenarioMatch(rest[1], promptLower)
                    THEN pushOfType(found, rest[1].examples, editType) ELSE found
       IN matchesFrom(pushOverlapping(typed, rest[1].examples, searchTerms),
                      Tail(rest), promptLower, editType, searchTerms)

\* matches.sort by confidence, descending; the sort is stable
RECURSIVE sortByConfidence(_)
sortByConfidence(found) ==
  IF found = <<>> THEN <<>>
  ELSE LET sorted == sortByConfidence(SubSeq(found, 1, Len(found) - 1))
           item == Last(found)
           ahead == {i \in 1..Len(sorted) :
                       confidenceOrder(sorted[i].confidence) >= confidenceOrder(item.confidence)}
           k == IF ahead = {} THEN 0 ELSE CHOOSE i \in ahead : \A j \in ahead : j <= i
       IN SubSeq(sorted, 1, k) \o <<item>> \o SubSeq(sorted, k + 1, Len(sorted))

findMatchingPatterns(prompt, editType, searchTerms) ==
  sortByConfidence(matchesFrom(<<>>, editPatterns, lowerCase(prompt), editType, searchTerms))

\* the prompts, edit types and search terms the catalog is asked about
CatalogPrompts ==
  {<<"fix", " ", "bug">>, <<"Add", " ", "state">>,
   <<"Add", " ", "state", " ", "and", " ", "fix", " ", "bug">>,
   <<"use", " ", "hook">>, <<"hello">>, <<>>}

EditTypes == {"FIX", "ENHANCE", "CREATE"}

SuppliedTerms == {<<"state">>, <<"Error", "s">>, <<"use">>, <<"button">>, <<>>}

NoCall == [made |-> FALSE, userPrompt |-> <<>>, editType |-> None, searchTerms |-> <<>>]

CatalogInit ==
  /\ matchCall = NoCall
  /\ matchingExamples = <<>>

FindMatchingPatterns(prompt, editType, searchTerms) ==
  /\ ~matchCall.made
  /\ matchCall' = [made |-> TRUE, userPrompt |-> prompt, editType |-> editType,
                   searchTerms |-> searchTerms]
  /\ matchingExamples' = findMatchingPatterns(prompt, editType, searchTerms)

CatalogNext ==
  ~matchCall.made /\ \E prompt \in CatalogPrompts, editType \in EditTypes,
                        searchTerms \in SeqsUpTo(SuppliedTerms, MaxTerms) :
    FindMatchingPatterns(prompt, editType, searchTerms) /\ UNCHANGED notCatalogVars

\* ======================================================================
\* ConversationStateManager: the duplicate check
\* ======================================================================
DuplicateThreshold == 8 \* similarity > 0.8, in tenths
RecentUserMessages == 3

\* the user requests, and the characters of each message content
Requests == {"fix", " Fix", "fig", "add", "dark"}

characters(text) ==
  CASE text = "fix" -> <<"f", "i", "x">>
    [] text = " Fix" -> <<" ", "F", "i", "x">>
    [] text = "fig" -> <<"f", "i", "g">>
    [] text = "add" -> <<"a", "d", "d">>
    [] text = "dark" -> <<"d", "a", "r", "k">>
    [] text = "plain" -> <<"p", "l", "a", "i", "n">>

\* text.toLowerCase().trim()
normalized(text) == trim(lowerCase(characters(text)))

levenshteinDistance(str1, str2) ==
  LET matrix[i \in 0..Len(str2), j \in 0..Len(str1)] ==
        IF i = 0 THEN j
        ELSE IF j = 0 THEN i
        ELSE IF str2[i] = str1[j] THEN matrix[i - 1, j - 1]
        ELSE Min(matrix[i - 1, j - 1] + 1, Min(matrix[i, j - 1] + 1, matrix[i - 1, j] + 1))
  IN matrix[Len(str2), Len(str1)]

\* calculateSimilarity, as a fraction
calculateSimilarity(str1, str2) ==
  LET longer == IF Len(str1) > Len(str2) THEN str1 ELSE str2
      shorter == IF Len(str1) > Len(str2) THEN str2 ELSE str1
  IN IF Len(longer) = 0 THEN [num |-> 1, den |-> 1]
     ELSE [num |-> Len(longer) - levenshteinDistance(longer, shorter), den |-> Len(longer)]

\* the last two user messages
lastTwoUserMessages(st) ==
  SliceLast(SelectSeq(st.messages, LAMBDA m : m.role = "user"), RecentUserMessages - 1)

\* this.state.messages.filter(m => m.role === 'user').slice(-3)
recentUserMessages(st) ==
  SliceLast(SelectSeq(st.messages, LAMBDA m : m.role = "user"), RecentUserMessages)

isDuplicateRequest(st, userMessage) ==
  LET recent == recentUserMessages(st)
      currentMessage == normalized(userMessage)
  IN \E i \in 1..Len(recent) :
       LET similarity == calculateSimilarity(normalized(recent[i].content), currentMessage)
       IN similarity.num * 10 > DuplicateThreshold * similarity.den

NoDupCall == [made |-> FALSE, userMessage |-> None, result |-> FALSE]

DupInit == dupCall = NoDupCall

IsDuplicateRequest(userMessage) ==
  /\ ~dupCall.made
  /\ dupCall' = [made |-> TRUE, userMessage |-> userMessage,
                 result |-> isDuplicateRequest(state, userMessage)]
  /\ UNCHANGED <<state, added>>

\* the calls of addMessage that precede the check, and the check
DupNext ==
  \/ /\ ~dupCall.made
     /\ Len(added) < MaxAdds
     /\ \E m \in {[role |-> "user", content |-> text] : text \in Requests} \cup {UsualMessage} :
          AddMessage(m) /\ UNCHANGED notStoreVars
  \/ \E userMessage \in Requests : IsDuplicateRequest(userMessage) /\ UNCHANGED notDupVars

\* ======================================================================
\* ConversationStateManager: the preferences read from the user messages
\* ======================================================================
TalkContents ==
  {"plain", "Use Tailwind, not CSS Modules", "css modules",
   "styled-components with hooks", "class component",
   "Redux Toolkit with useContext", "zustand", "vitest"}

TalkMessages ==
  {[role |-> role, content |-> text] :
     role \in {"user", "assistant", "system"}, text \in TalkContents}

TalkNext ==
  Len(added) < MaxTalk /\ \E m \in TalkMessages : AddMessage(m) /\ UNCHANGED notStoreVars

\* ======================================================================
\* Error detector: the template-literal pattern on the text of a code
\* ======================================================================
\* Here a code is a sequence of tokens: "q" a single quote, "b" a backtick,
\* "p" a placeholder ${...}, "t" any other text without quote or placeholder.
QuoteTokens == {"q", "b", "p", "t"}

QuotedCodes == SeqsUpTo(QuoteTokens, MaxQuoted)

\* the matches of /'([^']*\$\{[^}]+\}[^']*)'/g from position i on, leftmost
\* first and non-overlapping: a quote, the next quote, and a placeholder
\* between them
RECURSIVE quoteMatches(_, _)
quoteMatches(code, i) ==
  IF i > Len(code) THEN <<>>
  ELSE LET later == {j \in (i + 1)..Len(code) : code[j] = "q"}
           j == IF later = {} THEN 0 ELSE CHOOSE a \in later : \A c \in later : a <= c
       IN IF code[i] = "q" /\ j # 0 /\ \E k \in (i + 1)..(j - 1) : code[k] = "p"
          THEN <<[from |-> i, to |-> j]>> \o quoteMatches(code, j + 1)
          ELSE quoteMatches(code, i + 1)

\* the template_literal errors detectErrors reports: one for each match
templateLiteralErrors(code) == Len(quoteMatches(code, 1))

\* autoFixStrategies.templateLiteralQuotes: code.replace(regex, '`$1`')
templateLiteralQuotes(code) ==
  LET found == quoteMatches(code, 1)
      ends == {found[m].from : m \in 1..Len(found)} \cup {found[m].to : m \in 1..Len(found)}
  IN [i \in 1..Len(code) |-> IF i \in ends THEN "b" ELSE code[i]]

QuoteInit ==
  /\ qpc = "idle"
  /\ quotedCode = <<>>
  /\ requotedCode = <<>>

\* detectErrors(code), then autoFixCode(code, errors): the strategy runs when
\* a template_literal error was reported
FixQuotes(code) ==
  /\ qpc = "idle"
  /\ qpc' = "returned"
  /\ quotedCode' = code
  /\ requotedCode' = IF templateLiteralErrors(code) > 0
                     THEN templateLiteralQuotes(code) ELSE code

QuoteNext ==
  qpc = "idle" /\ \E code \in QuotedCodes : FixQuotes(code) /\ UNCHANGED notQuoteVars

\* ======================================================================
\* The component list of the conversation store
\* ======================================================================
ComponentNames == {"Header", "Footer", "Nav"}

\* the componentsAffected arguments
AffectedLists == SeqsUpTo(ComponentNames, 2)

SourceTexts ==
  {<<"function", "Header", "x">>,
   <<"const", "Footer", "x", "function", "Header", "x">>,
   <<"export", "default", "Header">>,
   <<"export", "default", "function", "Nav", "x">>,
   <<"const", "header", "x">>}

SourceFileNames == {"Header.tsx", "App.jsx", "util.ts"}

\* the files objects: up to two files with different names
FileMaps ==
  {<<>>}
    \cup {<<[fileName |-> n, text |-> c]>> : n \in SourceFileNames, c \in SourceTexts}
    \cup {<<[fileName |-> n1, text |-> c1], [fileName |-> n2, text |-> c2]>> :
            n1 \in {"Header.tsx"}, n2 \in {"App.jsx", "util.ts"},
            c1 \in SourceTexts, c2 \in SourceTexts}

\* every name the expression matches in the .tsx and .jsx files of a files
\* object, repetitions included
RECURSIVE matchedNames(_)
matchedNames(files) ==
  IF files = <<>> THEN <<>>
  ELSE (IF IsComponentFile(files[1].fileName)
        THEN componentMatches(files[1].text, 1) ELSE <<>>)
         \o matchedNames(Tail(files))

ComponentInit == supplied = <<>>

RecordFileEditAffecting(componentsAffected) ==
  /\ Len(supplied) + Len(componentsAffected) <= MaxSupplied
  /\ state' = recordFileEditAffecting(state, "App.jsx", "UPDATE", componentsAffected)
  /\ supplied' = supplied \o componentsAffected

UpdateContext(files) ==
  /\ Len(supplied) + Len(matchedNames(files)) <= MaxSupplied
  /\ state' = updateContext(state, files)
  /\ supplied' = supplied \o matchedNames(files)

ComponentNext ==
  \/ \E componentsAffected \in AffectedLists :
       RecordFileEditAffecting(componentsAffected) /\ UNCHANGED notComponentVars
  \/ \E files \in FileMaps : UpdateContext(files) /\ UNCHANGED notComponentVars

Init == OrchInit /\ RetryInit /\ StoreInit /\ IntentInit /\ EditInit /\ ChunkInit /\ AnalyzerInit /\ CatalogInit /\ DupInit /\ QuoteInit /\ ComponentInit

\* one request served alone
RunNext ==
  \E r \in {1} :
    \/ StartRequest(r, TRUE) /\ UNCHANGED notOrchVars
    \/ StartSimple(r, TRUE) /\ UNCHANGED notOrchVars
    \/ IntentReturns(r, TRUE) /\ UNCHANGED notOrchVars
    \/ PlanReturns(r, TRUE) /\ UNCHANGED notOrchVars
    \/ EditReturns(r, TRUE) /\ UNCHANGED notOrchVars
    \/ ExecutorSettled(r) /\ UNCHANGED notOrchVars
    \/ NextPhase(r) /\ UNCHANGED notOrchVars
    \/ ReturnResult(r) /\ UNCHANGED notOrchVars
    \/ ReturnFailure(r) /\ UNCHANGED notOrchVars
    \/ RouteFinish(r) /\ UNCHANGED notOrchVars
    \/ ClientCancel(r) /\ UNCHANGED notOrchVars

SpecRun == Init /\ [][RunNext]_vars

\* NumRuns requests served concurrently, their clients staying connected
OrchNext ==
  \E r \in Runs :
    \/ StartRequest(r, FALSE) /\ UNCHANGED notOrchVars
    \/ StartSimple(r, FALSE) /\ UNCHANGED notOrchVars
    \/ IntentReturns(r, FALSE) /\ UNCHANGED notOrchVars
    \/ PlanReturns(r, FALSE) /\ UNCHANGED notOrchVars
    \/ EditReturns(r, FALSE) /\ UNCHANGED notOrchVars
    \/ ExecutorSettled(r) /\ UNCHANGED notOrchVars
    \/ NextPhase(r) /\ UNCHANGED notOrchVars
    \/ ReturnResult(r) /\ UNCHANGED notOrchVars
    \/ ReturnFailure(r) /\ UNCHANGED notOrchVars
    \/ RouteFinish(r) /\ UNCHANGED notOrchVars

SpecOrch == Init /\ [][OrchNext]_vars

SpecChunk == Init /\ [][ChunkNext]_vars

SpecAnalyzer == Init /\ [][AnalyzerNext]_vars

SpecCatalog == Init /\ [][CatalogNext]_vars

SpecDuplicate == Init /\ [][DupNext]_vars

SpecTalk == Init /\ [][TalkNext]_vars

SpecQuote == Init /\ [][QuoteNext]_vars
SpecComponent == Init /\ [][ComponentNext]_vars

\* one workflow request running the retry loop
SpecRetry == Init /\ [][RetryNext]_vars

\* one call of analyzeIntent
SpecIntent == Init /\ [][IntentNext]_vars

\* one call of performPrecisionEdit
SpecEdit == Init /\ [][EditNext]_vars

\* the store alone, called any number of times
SpecStore == Init /\ [][StoreNext]_vars

\* ======================================================================
\* Properties
\* ======================================================================
OwnPhases(r) == [k \in 1..Len(phase[r]) |-> <<r, k>>]

AllOwnCompleted(r) ==
  /\ Len(phase[r]) = NumPhases
  /\ \A k \in 1..NumPhases : phase[r][k].status = "completed"

\* C1: within one run the phases are started in the order Intent Analysis,
\* Context Search, Strategic Planning, Surgical Execution, Validation; a phase
\* is started only when every earlier phase is completed; none is skipped or
\* started twice.
C1_PhasesInOrder ==
  \A r \in Runs :
    /\ Len(phase[r]) <= NumPhases
    /\ \A k \in 1..Len(phase[r]) : phase[r][k].name = PhaseNames[k]
    /\ \A k \in 1..(Len(phase[r]) - 1) : phase[r][k].status = "completed"

C1_Witness ==
  \E r \in Runs : Len(phase[r]) = NumPhases /\ phase[r][NumPhases].status = "completed"

\* C2: a phase whose executor threw is marked failed with the error's message
\* and is the last phase the run started; the run then returns a result with
\* success = false; a result with success = true has all five phases of the
\* run completed.
C2_FailureAbortsRun ==
  \A r \in Runs :
    /\ \A k \in 1..Len(phase[r]) :
         phase[r][k].status = "failed" =>
           /\ k = Len(phase[r])
           /\ phase[r][k].error = thrown[r]
           /\ phase[r][k].error # None
    /\ (thrown[r] # None /\ pc[r] # "settled") =>
         /\ Last(phase[r]).status = "failed"
         /\ pc[r] \in {"caught", "returned", "done", "aborted"}
         /\ result[r].returned => ~result[r].success
    /\ (result[r].returned /\ result[r].success) => AllOwnCompleted(r)

C2_Witness ==
  \E r \in Runs :
    /\ result[r].returned
    /\ Len(phase[r]) = 3
    /\ phase[r][3].status = "failed"
    /\ ~result[r].success

\* C3: when Surgical Execution yields no SurgicalEdit, Validation ends failed
\* with the 'no edits produced' error and the result has success = false.
C3_NoEditsFailsValidation ==
  \A r \in Runs :
    (Len(phase[r]) = NumPhases /\ surgicalEdits[r] = <<>> /\ pc[r] # "settled") =>
      /\ phase[r][NumPhases].status = "failed"
      /\ phase[r][NumPhases].error = NoEditsError
      /\ result[r].returned => ~result[r].success

C3_Witness ==
  \E r \in Runs :
    /\ result[r].returned
    /\ Len(phase[r]) = NumPhases
    /\ surgicalEdits[r] = <<>>
    /\ phase[r][4].status = "completed"

\* C4: the phase records and the success flag a run returns are those of the
\* run's own phases, whatever other runs do on the shared reasoner.
C4_ResultOwnsItsPhases ==
  \A r \in Runs :
    result[r].returned =>
      /\ arrays[result[r].phases] = OwnPhases(r)
      /\ result[r].success = AllOwnCompleted(r)

\* C5: the retry loop, streaming or not, invokes the builder at most
\* maxRetries + 1 times.
C5_AtMostMaxRetriesPlusOneCalls ==
  /\ builderCalls <= maxRetries + 1
  /\ rpc = "building" => builderCalls = attempt

C5_Witness ==
  /\ rpc = "done"
  /\ retryResult.type = "failure"
  /\ maxRetries >= 1
  /\ builderCalls = maxRetries + 1

\* C6: when every attempt ends without success the loop returns a failure
\* result that carries the error context of the last attempt, and no exception
\* leaves the loop.
C6_FailureIsReturnedNotThrown ==
  /\ rpc # "threw"
  /\ (rpc = "done" /\ retryResult.type = "failure") =>
        /\ retryResult.lastErrors = lastError
        /\ lastError.kind = "attemptError" => lastError.attempt = maxRetries + 1
        /\ lastError.kind = "errorContext" =>
              /\ builderResult.attempt = maxRetries + 1
              /\ lastError.failedCode = builderResult.code
        /\ lastError.kind # "null"

\* C7: on an attempt whose code has detected errors the loop returns success,
\* with the fixed code, exactly when the auto-fix applied a fix, left no
\* remaining error and the fixed code passes validateCode; otherwise the loop
\* goes on to the next attempt or returns the failure result.
C7_SuccessIffFixedAndValid ==
  (builderResult.success /\ Len(errors) > 0) =>
    LET accepted == /\ autoFixResult.ran
                    /\ autoFixResult.success
                    /\ autoFixResult.remainingErrors = <<>>
                    /\ validationIssues(autoFixResult.fixedCode) = <<>>
        succeeded == /\ rpc = "done"
                     /\ retryResult.type = "success"
                     /\ retryResult.attempts = builderResult.attempt
    IN /\ succeeded <=> accepted
       /\ succeeded => retryResult.code = autoFixResult.fixedCode
       /\ ~succeeded =>
            /\ attempt = builderResult.attempt + 1
            /\ \/ rpc \in {"building", "threw"}
               \/ /\ rpc = "done"
                  /\ retryResult.type = "failure"
                  /\ builderResult.attempt = maxRetries + 1

C7_Witness ==
  /\ rpc = "done"
  /\ retryResult.type = "success"
  /\ Len(errors) > 1
  /\ retryResult.code = autoFixResult.fixedCode
  /\ retryResult.code # builderResult.code

\* C8: on the first attempt whose builder succeeds with code in which
\* detectErrors finds nothing, the loop returns success with the builder's code
\* at once: the builder is not invoked again and attempts is the number of
\* that attempt.
C8_CleanCodeReturnsAtOnce ==
  (builderResult.success /\ Len(errors) = 0) =>
    /\ rpc = "done"
    /\ retryResult.type = "success"
    /\ retryResult.code = builderResult.code
    /\ retryResult.attempts = builderResult.attempt
    /\ attempt = builderResult.attempt
    /\ builderCalls = builderResult.attempt

C8_Witness ==
  /\ builderResult.success
  /\ Len(errors) = 0
  /\ retryResult.type = "success"
  /\ retryResult.attempts = 2
  /\ builderResult.code # EmptyCode

\* C9: when attempt k ended with unresolved errors and k <= maxRetries, the
\* builder invocation of attempt k + 1 receives the error context of attempt k.
C9_NextAttemptReceivesErrorContext ==
  (rpc = "building" /\ attempt > 1 /\ lastError.kind = "errorContext") =>
    ErrorContextOf(builderArgs) = lastError

\* C10: on every stream of the generate endpoint a 'complete' or 'error'
\* event is the last event: nothing is emitted after it, and a stream the
\* endpoint closed ends with one.
C10_TerminalEventIsLast ==
  \A r \in Runs :
    /\ \A i \in 1..Len(events[r]) :
         events[r][i].type \in {"complete", "error"} => i = Len(events[r])
    /\ stream[r] = "closed" =>
         /\ events[r] # <<>>
         /\ Last(events[r]).type \in {"complete", "error"}

\* C11: when an orchestration run fails, the stream of its request carries
\* exactly one 'error' event, that event is the last of the stream, and the
\* stream is closed after it.
C11_OneTerminalErrorEvent ==
  \A r \in Runs :
    (pc[r] = "done" /\ result[r].returned /\ ~result[r].success) =>
      /\ stream[r] = "closed"
      /\ Last(events[r]).type = "error"
      /\ Cardinality({i \in 1..Len(events[r]) : events[r][i].type = "error"}) = 1


\* C12: after any N addMessage calls on a fresh store the message list has
\* length min(N, 50) and holds exactly the 50 most recent messages, in the
\* order they were added.
C12_MessagesAreTheLatestFifty ==
  /\ Len(state.messages) = Min(Len(added), 50)
  /\ \A i \in 1..Len(state.messages) :
       state.messages[i] = added[Len(added) - Len(state.messages) + i]

\* more than 50 messages were added and the oldest one, which differs from its
\* successor in the list, has been dropped
C12_Witness ==
  /\ Len(added) > 50
  /\ added[1] = MarkedMessage
  /\ state.messages[1] = UsualMessage

\* C13: the list of recent edits never holds more than 20 entries and holds
\* exactly the most recent min(N, 20) recorded edits, in order.
C13_RecentEditsAreTheLatestTwenty ==
  /\ Len(state.recentEdits) = Min(Len(recorded), 20)
  /\ \A i \in 1..Len(state.recentEdits) :
       state.recentEdits[i] = recorded[Len(recorded) - Len(state.recentEdits) + i]

\* more than 20 edits were recorded and the oldest one has been dropped
C13_Witness ==
  /\ Len(recorded) > 20
  /\ recorded[1] = MarkedEdit
  /\ state.recentEdits[1] = UsualEdit


\* C14: what one session wrote to the conversation store is never observable
\* by a request of another session.  Every request here is the first of its
\* own session, so the recent changes handed to its intent analysis must be
\* those of a store nobody wrote to.
C14_NoStateOfAnotherSession ==
  \A r \in Runs : pc[r] # "idle" => input[r].recentChanges = <<>>


\* C15: the progress snapshot embedded in a request's status and complete
\* events reflects only that request's own operations: every error listed in
\* the snapshot was reported on the request's own stream before.
C15_SnapshotShowsOwnErrorsOnly ==
  \A r \in Runs : \A i \in 1..Len(events[r]) :
    \A k \in 1..Len(events[r][i].progress.errors) :
      \E j \in 1..(i - 1) :
        /\ events[r][j].type = "error"
        /\ events[r][j].detail = events[r][i].progress.errors[k]


\* C16: analyzeIntent never throws.  When the completion call, the parsing or
\* the enrichment fails it returns the degraded analysis: editType 'CREATE',
\* confidence 0.3, surgicalEdit false, no target files, and search terms that
\* are all words of the prompt longer than 3 characters and not stop words.
C16_FailureReturnsDegradedAnalysis ==
  /\ ipc \in {"idle", "awaiting", "returned"}
  /\ (ipc = "returned" /\ caughtError # None) =>
       /\ intentResult.editType = "CREATE"
       /\ intentResult.confidence = 30
       /\ intentResult.surgicalEdit = FALSE
       /\ intentResult.targetFiles = <<>>
       /\ \A i \in 1..Len(intentResult.searchTerms) :
            /\ Len(intentResult.searchTerms[i]) > 3
            /\ intentResult.searchTerms[i] \notin StopWords
            /\ \E j \in 1..Len(userPrompt) :
                 toLowerCase(userPrompt[j]) = intentResult.searchTerms[i]

\* the text did not parse and the prompt held a short word, a stop word and
\* more key words than the degraded analysis keeps
C16_Witness ==
  /\ ipc = "returned"
  /\ parsedResponse.threw
  /\ Len(userPrompt) = 6
  /\ userPrompt[1] = "add"
  /\ userPrompt[2] = "THIS"
  /\ Len(intentResult.searchTerms) = 4

\* C17: parsing a response fails only if the direct parse, the fenced block
\* and the '{...}' substring all fail: when the first two yield no JSON the
\* substring is still tried and its value returned if it is valid.
C17_ThirdStrategyIsTried ==
  (ipc = "returned" /\ caughtError # "completion failed") =>
    LET fenced == FencedMatch(responseText)
        object == ObjectMatch(responseText)
        firstTwoFail == /\ ~IsJson(responseText)
                        /\ (fenced = NullMatch \/ ~IsJson(fenced))
    IN /\ parsedResponse.threw =>
            (firstTwoFail /\ (object = NullMatch \/ ~IsJson(object)))
       /\ (firstTwoFail /\ object # NullMatch /\ IsJson(object)) =>
            (~parsedResponse.threw /\ parsedResponse.value = object)


\* C18: Strategic Planning never ends 'failed' because the completion call
\* failed or its text was not valid JSON: createStrategicPlan then returns the
\* fallback plan (approach 'surgical_edit' if the analysis asks for a surgical
\* edit, else 'new_creation'; phases analyze, modify, validate; complexity
\* 'medium') and the phase completes.
C18_PlanningFallsBack ==
  \A r \in Runs :
    /\ strategicPlan[r].fallback =>
         /\ strategicPlan[r].approach =
              (IF intentAnalysis[r].surgicalEdit THEN "surgical_edit" ELSE "new_creation")
         /\ strategicPlan[r].phases = <<"analyze", "modify", "validate">>
         /\ strategicPlan[r].estimatedComplexity = "medium"
         /\ phase[r][3].status =
              (IF pc[r] = "settled" /\ Len(phase[r]) = 3 THEN "in_progress" ELSE "completed")
    /\ (Len(phase[r]) >= 3 /\ phase[r][3].status = "failed") =>
         /\ strategicPlan[r] = NoPlan
         /\ phase[r][3].error = TypeErrorMsg

\* a run whose analysis asked for a surgical edit completed Strategic
\* Planning with the fallback plan
C18_Witness ==
  \E r \in Runs :
    /\ strategicPlan[r].fallback
    /\ intentAnalysis[r].surgicalEdit
    /\ phase[r][3].status = "completed"
    /\ Len(phase[r]) > 3


\* C19: in surgical mode performSurgicalEdit issues at most cap(editType) edit
\* requests, each announced by a 'surgical-edit' event, and returns at most
\* cap(editType) SurgicalEdits; the cap is 1 for UPDATE and FIX, 2 for
\* ENHANCE, 3 for REFACTOR and 1 for any other edit type.
C19_EditsWithinTheCap ==
  \A r \in Runs :
    LET cap == CASE intentAnalysis[r].editType \in {"UPDATE", "FIX"} -> 1
                 [] intentAnalysis[r].editType = "ENHANCE" -> 2
                 [] intentAnalysis[r].editType = "REFACTOR" -> 3
                 [] OTHER -> 1
        requests == {i \in 1..Len(events[r]) :
                       events[r][i].type = "surgical-edit" /\ events[r][i].detail = "start"}
    IN (intentAnalysis[r].surgicalEdit /\ Len(intentAnalysis[r].targetFiles) > 0) =>
         /\ Cardinality(requests) <= cap
         /\ Len(surgicalEdits[r]) <= cap
         /\ result[r].returned => Len(result[r].surgicalEdits) <= cap

\* a refactoring naming four files of the request ended with three edits
C19_Witness ==
  \E r \in Runs :
    /\ intentAnalysis[r].editType = "REFACTOR"
    /\ intentAnalysis[r].targetFiles = <<TRUE, TRUE, TRUE, TRUE>>
    /\ Len(surgicalEdits[r]) = 3
    /\ result[r].returned
    /\ result[r].success


\* C20: when the response for a file echoes the file's original content
\* unchanged, alone or in fences, no SurgicalEdit is produced for the file; no
\* SurgicalEdit has a modifiedContent equal to its originalContent.
C20_EchoGivesNoEdit ==
  /\ (epc = "returned" /\ originalContent # <<>>
        /\ editResponse \in {originalContent, <<"f">> \o originalContent \o <<"f">>}) =>
       ~precisionEdit.returned
  /\ precisionEdit.returned => precisionEdit.modifiedContent # precisionEdit.originalContent

\* no SurgicalEdit has a modifiedContent equal to its originalContent
C20_EditDiffersFromOriginal ==
  precisionEdit.returned =>
    /\ precisionEdit.modifiedContent # precisionEdit.originalContent
    /\ precisionEdit.modifiedContent # <<>>


C22_EveryErrorAccountedOnce ==
  autoFixResult.ran =>
    LET n == Len(errors)
        after[i \in 0..n] ==
          IF i = 0 THEN builderResult.code
          ELSE IF errors[i].autoFixable /\ errors[i].fixStrategy \in StrategyNames
               THEN autoFixStrategies(errors[i].fixStrategy, after[i - 1])
               ELSE after[i - 1]
        changed == {i \in 1..n : after[i] # after[i - 1]}
        kept == (1..n) \ changed
        nth(I, k) == CHOOSE i \in I : Cardinality({j \in I : j <= i}) = k
    IN /\ Len(autoFixResult.appliedFixes) = Cardinality(changed)
       /\ \A k \in 1..Cardinality(changed) :
            autoFixResult.appliedFixes[k] =
              <<errors[nth(changed, k)].type, errors[nth(changed, k)].message>>
       /\ Len(autoFixResult.remainingErrors) = Cardinality(kept)
       /\ \A k \in 1..Cardinality(kept) :
            autoFixResult.remainingErrors[k] = errors[nth(kept, k)]
       /\ autoFixResult.success <=> changed # {}
       /\ autoFixResult.defined <=> autoFixResult.success
       /\ autoFixResult.success => autoFixResult.fixedCode = after[n]

\* two errors share a strategy: the rewrite of the first changed the code,
\* that of the second found nothing left to change
C22_Witness ==
  /\ autoFixResult.ran
  /\ Len(errors) >= 2
  /\ errors[1].fixStrategy = errors[2].fixStrategy
  /\ Len(autoFixResult.appliedFixes) = 1
  /\ autoFixResult.remainingErrors = <<errors[2]>>


\* C23: every ReasoningPhase changes status monotonically: it is created
\* 'in_progress', moves to 'completed' or to 'failed', and once it has reached
\* one of these its status, result, error and duration never change again.
C23_PhaseStatusIsMonotonic ==
  [][\A r \in Runs :
       /\ Len(phase'[r]) >= Len(phase[r])
       /\ \A k \in 1..Len(phase[r]) :
            /\ phase[r][k].status \in {"completed", "failed"} =>
                 phase'[r][k] = phase[r][k]
            /\ phase[r][k].status = "in_progress" =>
                 phase'[r][k].status \in {"in_progress", "completed", "failed"}
            /\ phase[r][k].status \in {"in_progress", "completed", "failed"}
       /\ \A k \in (Len(phase[r]) + 1)..Len(phase'[r]) :
            phase'[r][k].status = "in_progress"]_vars

\* a run ended with four completed phases and a failed one
C23_Witness ==
  \E r \in Runs :
    /\ pc[r] = "done"
    /\ Len(phase[r]) = 5
    /\ phase[r][4].status = "completed"
    /\ phase[r][4].duration # None
    /\ phase[r][5].status = "failed"


\* the line indices (from 0) of the boundary lines of a file: the lines that,
\* trimmed, match one of the five patterns
Boundaries(lines) ==
  {i \in 0..(Len(lines) - 1) :
     \E k \in 1..Len(patterns) : match(trim(lines[i + 1]), patterns[k]) # NullMatch}

\* the chunks of the returned array that hold line i
ChunksHolding(i) ==
  {k \in 1..Len(codeChunks) : codeChunks[k].startLine <= i /\ i <= codeChunks[k].endLine}

\* C24: for every input the chunks returned by the chunker are in increasing
\* line order, pairwise non-overlapping, and every line index from 0 to the
\* last line of the file belongs to exactly one chunk.
C24_ChunksCoverEveryLine ==
  cpc = "returned" =>
    /\ \A k \in 1..(Len(codeChunks) - 1) :
         codeChunks[k].endLine < codeChunks[k + 1].startLine
    /\ \A i \in 0..(Len(split(fileText)) - 1) : Cardinality(ChunksHolding(i)) = 1

\* C24, amended: the chunks are in increasing line order and pairwise
\* non-overlapping, and they cover exactly the lines from the first boundary
\* line to the last line of the file; a line that precedes the first boundary
\* line (every line, in a file without one) belongs to no chunk.
C24_ChunksCoverFromFirstBoundary ==
  cpc = "returned" =>
    LET lines == split(fileText)
    IN /\ \A k \in 1..(Len(codeChunks) - 1) :
            codeChunks[k].endLine < codeChunks[k + 1].startLine
       /\ \A k \in 1..Len(codeChunks) : codeChunks[k].startLine <= codeChunks[k].endLine
       /\ \A i \in 0..(Len(lines) - 1) :
            Cardinality(ChunksHolding(i)) =
              IF \E b \in Boundaries(lines) : b <= i THEN 1 ELSE 0

\* a file of two lines that are in no chunk, followed by two chunks
C24_Witness ==
  /\ cpc = "returned"
  /\ Len(split(fileText)) = 5
  /\ Boundaries(split(fileText)) = {2, 3}
  /\ Len(codeChunks) = 2
  /\ codeChunks[1].startLine = 2 /\ codeChunks[1].endLine = 2
  /\ codeChunks[2].startLine = 3 /\ codeChunks[2].endLine = 4

\* a line of the form 'function Name() {'
PlainFunction(line) ==
  Len(line) >= 2 /\ line[1] = "function" /\ IsWord(line[2])

\* C25: when the only boundary lines of the input are plain 'function Name()'
\* declarations, the chunker returns one chunk per declaration, from its line
\* to the line before the next declaration (the last one to the final line),
\* named after the declaration and of type 'function'.
C25_PlainFunctionsGiveFunctionChunks ==
  LET lines == split(fileText)
      B == Boundaries(lines)
      before(b) == Cardinality({c \in B : c < b})
  IN (cpc = "returned" /\ \A b \in B : PlainFunction(lines[b + 1])) =>
       /\ Len(codeChunks) = Cardinality(B)
       /\ \A b \in B :
            LET chunk == codeChunks[before(b) + 1]
                later == {c \in B : c > b}
            IN /\ chunk.startLine = b
               /\ chunk.endLine =
                    IF later = {} THEN Len(lines) - 1
                    ELSE (CHOOSE c \in later : \A d \in later : c <= d) - 1
               /\ chunk.name = lines[b + 1][2]
               /\ chunk.type = "function"

\* C26: a file in which no line matches a boundary pattern yields zero chunks.
C26_NoBoundaryNoChunk ==
  (cpc = "returned" /\ Boundaries(split(fileText)) = {}) => codeChunks = <<>>

\* three lines, none of them a boundary, chunked into nothing
C26_Witness ==
  /\ cpc = "returned"
  /\ Len(split(fileText)) = 3
  /\ Boundaries(split(fileText)) = {}
  /\ split(fileText)[2] = <<"export", "default", "function", "x">>
  /\ codeChunks = <<>>


\* the indexed analysis of a path, its place in the index, and its combined
\* score for the last query
AnalysisOf(path) ==
  fileAnalyses[CHOOSE i \in 1..Len(fileAnalyses) : fileAnalyses[i].filePath = path]

PlaceOf(path) ==
  CHOOSE i \in 1..Len(fileAnalyses) : fileAnalyses[i].filePath = path

ScoreOf(path) == totalScore(searchQuery, AnalysisOf(path))

\* C27: findRelevantFiles(query, maxFiles) returns at most maxFiles analyses,
\* each with a combined score strictly above 0.1, ordered by score descending
\* with ties in indexing order, and no file that is left out has a higher
\* score than a returned one unless its score is at or below the threshold.
C27_TopFilesAboveThreshold ==
  relevant.status = "returned" =>
    LET files == relevant.files
        indexed == {fileAnalyses[i].filePath : i \in 1..Len(fileAnalyses)}
        returned == {files[i] : i \in 1..Len(files)}
        limit == RelevanceThreshold * 10 * Len(searchQuery)
    IN /\ Len(files) <= searchMax
       /\ returned \subseteq indexed
       /\ \A path \in returned : ScoreOf(path) > limit
       /\ \A i, j \in 1..Len(files) :
            i < j => \/ ScoreOf(files[i]) > ScoreOf(files[j])
                     \/ /\ ScoreOf(files[i]) = ScoreOf(files[j])
                        /\ PlaceOf(files[i]) < PlaceOf(files[j])
       /\ \A out \in indexed \ returned :
            \/ ScoreOf(out) <= limit
            \/ \A path \in returned : ScoreOf(out) <= ScoreOf(path)

\* three files above the threshold, the two that were indexed first with the
\* same score and the third with a higher one: the third and the first are
\* returned, the second is cut off
C27_Witness ==
  /\ relevant.status = "returned"
  /\ Len(fileAnalyses) = 3
  /\ searchMax = 2
  /\ \A i \in 1..3 : AboveThreshold(searchQuery, fileAnalyses[i])
  /\ totalScore(searchQuery, fileAnalyses[1]) = totalScore(searchQuery, fileAnalyses[2])
  /\ totalScore(searchQuery, fileAnalyses[3]) > totalScore(searchQuery, fileAnalyses[1])
  /\ relevant.files = <<fileAnalyses[3].filePath, fileAnalyses[1].filePath>>

\* C28: with embeddings unavailable, the query 'dark mode toggle' over the
\* indexed files Header.tsx, whose content holds the word 'toggle' once, and
\* Footer.tsx, which holds no query word, returns exactly Header.tsx.
C28_HeaderIsReturned ==
  ( /\ relevant.status = "returned"
    /\ searchQuery = <<"dark", "mode", "toggle">>
    /\ searchMax = DefaultMaxFiles
    /\ Len(fileAnalyses) = 2
    /\ fileAnalyses[1].filePath = "Header.tsx"
    /\ occurrences("toggle", fileContent(fileAnalyses[1])) = 1
    /\ occurrences("dark", fileContent(fileAnalyses[1])) = 0
    /\ occurrences("mode", fileContent(fileAnalyses[1])) = 0
    /\ fileAnalyses[2].filePath = "Footer.tsx"
    /\ \A word \in {"dark", "mode", "toggle"} :
         occurrences(word, fileContent(fileAnalyses[2])) = 0 )
  => relevant.files = <<"Header.tsx">>


\* the conditions of the matching rule for the example x of the catalog entry
\* p, for the arguments of the call
ScenarioHolds(p) ==
  \E k \in 1..Len(editPatterns[p].applicableScenarios) :
    includes(lowerCase(matchCall.userPrompt), lowerCase(editPatterns[p].applicableScenarios[k]))

TypeHolds(p, x) == editPatterns[p].examples[x].editType = matchCall.editType

TermHolds(p, x) ==
  \E t \in 1..Len(matchCall.searchTerms), e \in 1..Len(editPatterns[p].examples[x].searchTerms) :
    LET term == lowerCase(matchCall.searchTerms[t])
        exampleTerm == lowerCase(editPatterns[p].examples[x].searchTerms[e])
    IN includes(term, exampleTerm) \/ includes(exampleTerm, term)

\* how often the example is in the returned array
TimesReturned(p, x) ==
  Cardinality({i \in 1..Len(matchingExamples) :
                 matchingExamples[i] = editPatterns[p].examples[x]})

\* C29: findMatchingPatterns returns a catalog example exactly when a phrase
\* of its parent scenario is part of the lowercased prompt, or its editType is
\* the requested one, or one of its search terms contains or is contained in
\* a supplied term, case-insensitively; a matching example appears once.
C29_AnyConditionMatches ==
  matchCall.made =>
    \A p \in 1..Len(editPatterns) : \A x \in 1..Len(editPatterns[p].examples) :
      TimesReturned(p, x) =
        IF ScenarioHolds(p) \/ TypeHolds(p, x) \/ TermHolds(p, x) THEN 1 ELSE 0

\* C29, amended: findMatchingPatterns returns a catalog example exactly when
\* a phrase of its parent scenario is part of the lowercased prompt and its
\* editType is the requested one, or one of its search terms contains or is
\* contained in a supplied term, case-insensitively; a matching example
\* appears once.
C29_ScenarioWithTypeOrTerm ==
  matchCall.made =>
    \A p \in 1..Len(editPatterns) : \A x \in 1..Len(editPatterns[p].examples) :
      TimesReturned(p, x) =
        IF (ScenarioHolds(p) /\ TypeHolds(p, x)) \/ TermHolds(p, x) THEN 1 ELSE 0

\* 'Add state and fix bug' asked for ENHANCE with the term 'Errors': ADD_STATE
\* is returned for its scenario and type, FIX_BUG for its term 'error' and not
\* for its scenario, ADD_HOOKS is not returned although its type is ENHANCE
C29_Witness ==
  /\ matchCall.made
  /\ matchCall.editType = "ENHANCE"
  /\ matchCall.searchTerms = <<<<"Error", "s">>>>
  /\ ScenarioHolds(1) /\ ~TypeHolds(1, 1) /\ TermHolds(1, 1)
  /\ ScenarioHolds(2) /\ TypeHolds(2, 1) /\ ~TermHolds(2, 1)
  /\ ~ScenarioHolds(3) /\ TypeHolds(3, 1) /\ ~TermHolds(3, 1)
  /\ Len(matchingExamples) = 2
  /\ matchingExamples[1].pattern = "ADD_STATE"
  /\ matchingExamples[2].pattern = "FIX_BUG"


\* the places of the user messages passed to addMessage, in call order
UserAdds == {i \in 1..Len(added) : added[i].role = "user"}

\* C30: isDuplicateRequest(text) returns true whenever text is identical,
\* after lowercasing and trimming, to a user message added to the store
\* before, whatever addMessage calls were made in between.
C30_IdenticalToAnyEarlierRequest ==
  (dupCall.made /\ \E i \in UserAdds :
                     normalized(added[i].content) = normalized(dupCall.userMessage))
  => dupCall.result

\* C30, amended: isDuplicateRequest(text) returns true whenever text is
\* identical, after lowercasing and trimming, to one of the last three user
\* messages among the stored messages, that is, when fewer than three user
\* messages were added after the identical one and it is still stored.
C30_IdenticalToRecentRequest ==
  (dupCall.made /\ \E i \in UserAdds :
                     /\ normalized(added[i].content) = normalized(dupCall.userMessage)
                     /\ Cardinality({j \in UserAdds : j > i}) < RecentUserMessages
                     /\ Len(added) - i < MaxMessages)
  => dupCall.result

\* ' Fix' is asked about after 'fix', an assistant message and two other user
\* requests were added: it is a duplicate
C30_Witness ==
  /\ dupCall.made
  /\ dupCall.userMessage = " Fix"
  /\ Len(added) = 4
  /\ added[1] = [role |-> "user", content |-> "fix"]
  /\ added[2] = UsualMessage
  /\ added[3] = [role |-> "user", content |-> "add"]
  /\ added[4] = [role |-> "user", content |-> "dark"]
  /\ dupCall.result


\* the value a user message gives a preference category: the first of the
\* category's values, in the order of its if-else chain, one of whose trigger
\* phrases the message holds; the earlier value when it holds none
Inferred(chain, content, earlier) ==
  LET hits == {k \in 1..Len(chain) : chain[k].triggers \cap mentions(content) # {}}
  IN IF hits = {} THEN earlier
     ELSE chain[CHOOSE k \in hits : \A h \in hits : k <= h].value

StylingChain ==
  <<[triggers |-> {"tailwind", "tw-"}, value |-> "tailwind"],
    [triggers |-> {"css modules", ".module.css"}, value |-> "css-modules"],
    [triggers |-> {"styled-components", "emotion"}, value |-> "css-in-js"]>>

ComponentChain ==
  <<[triggers |-> {"functional component", "hooks"}, value |-> "functional"],
    [triggers |-> {"class component"}, value |-> "class"]>>

StateChain ==
  <<[triggers |-> {"zustand", "jotai"}, value |-> "zustand"],
    [triggers |-> {"redux", "toolkit"}, value |-> "redux"],
    [triggers |-> {"context", "usecontext"}, value |-> "context"]>>

TestingChain ==
  <<[triggers |-> {"jest", "testing-library"}, value |-> "jest"],
    [triggers |-> {"vitest"}, value |-> "vitest"]>>

\* C31: a user message sets at most one value in each of the categories
\* styling, componentStyle, stateManagement and testing; a later user message
\* that triggers a category overwrites its value, a message that triggers
\* nothing in a category leaves its value as it was, and a message with role
\* 'assistant' or 'system' changes no preference.
C31_PreferencesFollowUserMessages ==
  [][Len(added') = Len(added) + 1 =>
       LET m == Last(added')
           before == state.userPreferences
           after == state'.userPreferences
       IN IF m.role = "user"
          THEN /\ after.styling = Inferred(StylingChain, m.content, before.styling)
               /\ after.componentStyle = Inferred(ComponentChain, m.content, before.componentStyle)
               /\ after.stateManagement = Inferred(StateChain, m.content, before.stateManagement)
               /\ after.testing = Inferred(TestingChain, m.content, before.testing)
          ELSE after = before]_vars

\* a user message set styling and state management, an assistant message
\* that names vitest changed nothing, and a second user message replaced the
\* styling and left the state management
C31_Witness ==
  /\ added = <<[role |-> "user", content |-> "Redux Toolkit with useContext"],
               [role |-> "assistant", content |-> "vitest"],
               [role |-> "user", content |-> "Use Tailwind, not CSS Modules"]>>
  /\ state.userPreferences =
       [styling |-> "tailwind", componentStyle |-> None,
        stateManagement |-> "redux", testing |-> None]


\* C32: emitting a progress event never fails the orchestration: without a
\* sink nothing is emitted, and a sink whose enqueue throws makes no emitting
\* call throw, so no phase of a run fails with the error of an enqueue.
C32_EmittingNeverFailsTheRun ==
  \A r \in Runs : \A k \in 1..Len(phase[r]) :
    ~(phase[r][k].status = "failed" /\ phase[r][k].error = ClosedError)


\* the single-quoted strings of a code, its quotes paired in the order of the
\* text, that hold a placeholder
QuotedTemplates(code) ==
  LET quotes == {i \in 1..Len(code) : code[i] = "q"}
      rank(i) == Cardinality({j \in quotes : j <= i})
  IN {pair \in quotes \X quotes :
        /\ rank(pair[1]) % 2 = 1
        /\ rank(pair[2]) = rank(pair[1]) + 1
        /\ \E k \in (pair[1] + 1)..(pair[2] - 1) : code[k] = "p"}

\* C33: for a code that holds a single-quoted string with a ${...}
\* placeholder, autoFixCode on the errors of detectErrors puts the string in
\* backticks, and detectErrors reports no template_literal error on the
\* fixed code.
C33_FixedCodeHasNoQuotedTemplate ==
  (qpc = "returned" /\ QuotedTemplates(quotedCode) # {}) =>
    /\ \A pair \in QuotedTemplates(quotedCode) :
         requotedCode[pair[1]] = "b" /\ requotedCode[pair[2]] = "b"
    /\ templateLiteralErrors(requotedCode) = 0


\* the events of a type on the stream of a run
EventsOfType(r, type) == {i \in 1..Len(events[r]) : events[r][i].type = type}

\* phase 4 of the run was begun with the intent analysis the run received
InSurgicalExecution(r) == Len(phase[r]) >= 4

LinesOf(text) ==
  LET breaks == {k \in 1..Len(text) : text[k] = "nl"}
      ends == breaks \cup {Len(text) + 1}
      start(e) == IF \E b \in breaks : b < e
                  THEN 1 + CHOOSE b \in breaks : b < e /\ \A c \in breaks : c < e => c <= b
                  ELSE 1
  IN [n \in 1..Cardinality(ends) |->
        LET e == CHOOSE x \in ends : Cardinality({y \in ends : y < x}) = n - 1
        IN SubSeq(text, start(e), e - 1)]

\* line i differs between two contents; a line only one of them has differs
LineDiffers(before, after, i) ==
  \/ i > Len(LinesOf(before))
  \/ i > Len(LinesOf(after))
  \/ LinesOf(before)[i] # LinesOf(after)[i]

\* C35: for every SurgicalEdit produced by editing an existing file,
\* linesChanged is exactly the 1-based positions, up to the longer of the two
\* contents, at which the original line differs from the modified line (a
\* line present on one side only differs), in strictly increasing order, and
\* it is never empty.
C35_LinesChangedAreTheDifferingLines ==
  precisionEdit.returned =>
    LET before == precisionEdit.originalContent
        after == precisionEdit.modifiedContent
        longer == IF Len(LinesOf(before)) >= Len(LinesOf(after))
                  THEN Len(LinesOf(before)) ELSE Len(LinesOf(after))
        listed == precisionEdit.linesChanged
    IN /\ {listed[k] : k \in 1..Len(listed)} =
            {i \in 1..longer : LineDiffers(before, after, i)}
       /\ \A k \in 1..(Len(listed) - 1) : listed[k] < listed[k + 1]
       /\ listed # <<>>

\* an edit that shortened a file of three lines to one line: the lines only
\* the original has are listed after no changed common line
C35_Witness ==
  /\ precisionEdit.returned
  /\ Len(LinesOf(precisionEdit.originalContent)) = 3
  /\ Len(LinesOf(precisionEdit.modifiedContent)) = 1
  /\ precisionEdit.linesChanged = <<2, 3>>


\* the names of a list without their repetitions, in order of first appearance
FirstAppearances(list) ==
  LET firsts == {i \in 1..Len(list) : \A j \in 1..(i - 1) : list[j] # list[i]}
  IN [n \in 1..Cardinality(firsts) |->
        list[CHOOSE i \in firsts : Cardinality({j \in firsts : j < i}) = n - 1]]

\* C36: after any sequence of recordFileEdit and updateContext calls the
\* tracked component list has no duplicate name, holds every name it was
\* handed, in order of first appearance; a call handing it only names it
\* already tracks leaves the list unchanged.
C36_ComponentsInOrderOfFirstAppearance ==
  [][LET tracked == state'.components
         handed == SubSeq(supplied', Len(supplied) + 1, Len(supplied'))
     IN /\ \A i, j \in 1..Len(tracked) : tracked[i] = tracked[j] => i = j
        /\ \A i \in 1..Len(state.components) :
             i <= Len(tracked) /\ tracked[i] = state.components[i]
        /\ tracked = FirstAppearances(supplied')
        /\ (\A k \in 1..Len(handed) :
              \E i \in 1..Len(state.components) : state.components[i] = handed[k])
             => tracked = state.components]_vars

\* three names were handed in after one another, one of them again
C36_Witness ==
  /\ Len(supplied) = MaxSupplied
  /\ Len(state.components) = 3
  /\ \E i, j \in 1..Len(supplied) : i # j /\ supplied[i] = supplied[j]


RECURSIVE Concatenation(_)
Concatenation(lists) ==
  IF lists = <<>> THEN <<>> ELSE Head(lists) \o Concatenation(Tail(lists))

\* C37: the appliedFixes of the retry loop's success result is the
\* concatenation, in attempt order, of the fixes autoFixCode applied on every
\* attempt of the request up to and including the successful one; the fixes
\* of earlier failed attempts are kept and nothing else appears.
C37_AppliedFixesOfEveryAttempt ==
  retryResult.type = "success" =>
    /\ retryResult.appliedFixes = Concatenation(fixLog)
    /\ Len(fixLog) <= retryResult.attempts

\* the second attempt succeeded after the first one applied a fix without
\* being accepted: the result carries the fix of the failed attempt
C37_Witness ==
  /\ retryResult.type = "success"
  /\ retryResult.attempts = 2
  /\ Len(fixLog) >= 1
  /\ fixLog[1] # <<>>
  /\ retryResult.appliedFixes # <<>>


\* the phase an event of the stream belongs to, 0 for the events of the route
PhaseOfEvent(ev) ==
  IF ev.type = "status"
  THEN IF ev.progress.stage = "Analyzing user intent" THEN 1
       ELSE IF \E k \in 1..NumPhases : PhaseNames[k] = ev.progress.stage
       THEN CHOOSE k \in 1..NumPhases : PhaseNames[k] = ev.progress.stage
       ELSE 0
  ELSE IF ev.type = "intent-analysis" THEN 1
  ELSE IF ev.type \in {"plan-thinking", "plan-complete"} THEN 3
  ELSE IF ev.type \in {"surgical-edit", "surgical-create", "surgical-thinking",
                       "surgical-creating"} THEN 4
  ELSE 0

StartingEvent(ev, k) ==
  ev.type = "status" /\ ev.detail = "Starting" /\ ev.progress.stage = PhaseNames[k]

CompletedEvent(ev, k) ==
  ev.type = "status" /\ ev.detail = "completed" /\ ev.progress.stage = PhaseNames[k]

\* C38: on the event stream of one run the events of the phases appear in
\* phase order: the 'Starting' status event of a phase precedes every event
\* the phase emits, its 'completed' status event or its 'error' event is the
\* last event of the phase, and no event of phase k+1 precedes the completion
\* event of phase k.
C38_PhaseEventsInPhaseOrder ==
  \A r \in Runs :
    \A i \in 1..Len(events[r]) :
      LET k == PhaseOfEvent(events[r][i])
      IN k > 0 =>
           /\ \E s \in 1..i : StartingEvent(events[r][s], k)
           /\ \A j \in 1..(i - 1) :
                /\ ~CompletedEvent(events[r][j], k)
                /\ events[r][j].type # "error"
           /\ k > 1 => \E j \in 1..(i - 1) : CompletedEvent(events[r][j], k - 1)

\* a stream carries the events of all five phases, those of an edit or a
\* creation among them, up to the completion of the last phase
C38_Witness ==
  \E r \in Runs :
    /\ \E i \in 1..Len(events[r]) : CompletedEvent(events[r][i], NumPhases)
    /\ \E i \in 1..Len(events[r]) :
         events[r][i].type \in {"surgical-thinking", "surgical-creating"}
    /\ \E i \in 1..Len(events[r]) : events[r][i].type = "plan-complete"

\* C39: every result of executeMultiPhaseReasoning with success = true
\* carries at least one SurgicalEdit, and every result with success = false
\* carries an empty surgicalEdits list.
C39_SuccessExactlyWithEdits ==
  \A r \in Runs :
    result[r].returned =>
      /\ result[r].success => Len(result[r].surgicalEdits) >= 1
      /\ ~result[r].success => result[r].surgicalEdits = <<>>


\* the entries a returned run says it made: one recent edit per SurgicalEdit
\* of a successful result
EditsOfSuccessful(r) ==
  IF result[r].returned /\ result[r].success THEN Len(result[r].surgicalEdits) ELSE 0

RECURSIVE EditsOfSuccessfulUpTo(_)
EditsOfSuccessfulUpTo(n) ==
  IF n = 0 THEN 0 ELSE EditsOfSuccessful(n) + EditsOfSuccessfulUpTo(n - 1)

CompletionMessages ==
  {i \in 1..Len(state.messages) :
     /\ state.messages[i].role = "assistant"
     /\ state.messages[i].content = "Completed multi-phase reasoning"}

\* C40: a run of executeMultiPhaseReasoning that returns success = false has
\* appended nothing to the conversation store, and a run that returns
\* success = true has appended one assistant message and one recent edit per
\* returned SurgicalEdit, in every interleaving with other runs: once no run
\* is in flight the store holds one completion message per successful run
\* and as many recent edits as the successful results carry.
C40_StoreHoldsWhatSuccessfulRunsAppended ==
  (\A r \in Runs : pc[r] = "idle" \/ result[r].returned) =>
    /\ Cardinality(CompletionMessages) =
         Cardinality({r \in Runs : result[r].returned /\ result[r].success})
    /\ Len(state.recentEdits) = EditsOfSuccessfulUpTo(NumRuns)

====
